---- MODULE Spec2Model ----
(***************************************************************************)
(* Model of hemmer-provider-sdk: the plan-diff engine (src/types.rs), the  *)
(* protocol dispatch adapter and the server runtime (src/server.rs), the   *)
(* validation engine (src/validation.rs) and the in-process test harness   *)
(* (src/testing.rs).                                                       *)
(***************************************************************************)
EXTENDS Integers, Sequences, FiniteSets, TLC

VARIABLES
    \* ---- server runtime (serve_with_options / serve_on_with_options / serve_on_listener) ----
    pc,            \* position of the serve task
    stdout,        \* lines written to the process's primary output stream
    log,           \* tracing events written to the secondary stream
    reqAddr,       \* address handed to TcpListener::bind
    boundAddr,     \* listener.local_addr() (None before the bind)
    accepting,     \* the listener is open and the accept loop runs
    accepted,      \* connections accepted so far
    inflight,      \* provider calls dispatched from RPCs and not yet returned
    signalled,     \* SIGTERM/SIGINT has been delivered while the handler was installed
    shutdownSeen,  \* the server future has seen its shutdown signal future resolve
    now,           \* ticks elapsed since tokio::time::timeout was armed
    sigAt,         \* value of now when the signal arrived (-1: none)
    shutdownResult,\* how `timeout(options.shutdown_timeout, server_future).await` resolved
    stopCalls,     \* provider.stop() invocations made by the runtime
    stopAt,        \* snapshot taken when the runtime called stop()
    stopFails,     \* whether the provider's stop() returns Err
    rpcStopCalls,  \* provider.stop() invocations made by the Stop RPC handler
    result,        \* what serve returned
    \* ---- plan-diff engine (PlanResult::from_diff) ----
    d_prior, d_proposed, d_order, d_result,
    \* ---- dispatch adapter (ProviderGrpcService) ----
    rpc_req,       \* the request being handled
    rpc_outcome,   \* what the provider method returns for it
    rpc_call,      \* the provider call the handler made
    rpc_resp,      \* the handler's result
    \* ---- validation engine (validation::validate) ----
    v_schema, v_value, v_order, v_result,
    \* ---- AttributeChange wire conversions and check_protocol_version ----
    t_change,      \* the AttributeChange to convert
    t_proto,       \* its generated::AttributeChange
    t_back,        \* the AttributeChange converted back from t_proto
    t_version,     \* the client's protocol version
    t_check,       \* what check_protocol_version returned, and whether it warned
    \* ---- test harness (testing::ProviderTester) ----
    pt_pc,         \* position of the harness method being run
    pt_args,       \* the arguments the harness method was called with
    pt_calls,      \* the provider calls the harness made, in order
    pt_returns,    \* what the provider returned for each of them
    pt_locals,     \* the local variables of the lifecycle helpers
    pt_result      \* what the harness method returned

serveVars == <<pc, stdout, log, reqAddr, boundAddr, accepting, accepted, inflight,
               signalled, shutdownSeen, now, sigAt, shutdownResult, stopCalls,
               stopAt, stopFails, rpcStopCalls, result>>
diffVars == <<d_prior, d_proposed, d_order, d_result>>
rpcVars == <<rpc_req, rpc_outcome, rpc_call, rpc_resp>>
validateVars == <<v_schema, v_value, v_order, v_result>>
typesVars == <<t_change, t_proto, t_back, t_version, t_check>>
testerVars == <<pt_pc, pt_args, pt_calls, pt_returns, pt_locals, pt_result>>
vars == <<serveVars, diffVars, rpcVars, validateVars, typesVars, testerVars>>

(***************************************************************************)
(* Bounds                                                                  *)
(***************************************************************************)
MaxNodes == 3        \* JSON values of at most this many nodes
MaxPayloadLen == 2   \* request payloads of at most this many tokens
MaxConfigLen == 1    \* the config payload of Plan
MaxInflight == 2     \* concurrently running provider calls
MaxAccepted == 2     \* accepted connections
ShutdownTimeout == 2 \* options.shutdown_timeout, in ticks
MaxStopRpcs == 2     \* Stop RPCs a run may receive
MaxItems == 2        \* arrays of at most this many items in validated values
MaxMinItems == 3     \* the largest min_items of a nested block
MaxMaxItems == 1     \* the largest max_items of a nested block
MaxVersion == 3      \* client protocol versions up to this one

(***************************************************************************)
(* serde_json::Value                                                       *)
(***************************************************************************)
JNull == [k |-> "null"]
JBool(b) == [k |-> "bool", v |-> b]
JNum(n) == [k |-> "num", v |-> n]
\* a number with a fractional part: n + 0.5
JFract(n) == [k |-> "num", v |-> n, half |-> TRUE]
JStr(s) == [k |-> "str", v |-> s]
JArr(s) == [k |-> "arr", v |-> s]
JObj(f) == [k |-> "obj", v |-> f]
\* n arrays inside one another, the innermost empty, in run-length form
NestedArrays(n) == [k |-> "arrs", n |-> n]

None == [k |-> "none"]
Some(x) == [k |-> "some", v |-> x]

IsContainer(val) == val.k \in {"obj", "arr"}

\* The object keys of the model, in the order serde_json's Map (a BTreeMap)
\* iterates them: byte order, `.` before `[` before the letters that follow.
MapKeyOrder == <<"a", "a.b", "a[0]", "b">>
\* the keys of the generated objects
Keys == {"a", "b"}
\* keys that contain the punctuation paths are built with
PunctuatedKeys == {"a.b", "a[0]"}

Scalars == {JNull, JNum(1), JStr("1")}

RECURSIVE ValuesOfSize(_), SeqsOfTotal(_), ObjFields(_, _)
\* sequences of values whose node counts add up to m
SeqsOfTotal(m) ==
    IF m = 0 THEN {<<>>}
    ELSE UNION {{<<x>> \o s : x \in ValuesOfSize(i), s \in SeqsOfTotal(m - i)} : i \in 1..m}
\* maps over a subset of the keys ks whose values' node counts add up to m
ObjFields(ks, m) ==
    IF ks = <<>> THEN (IF m = 0 THEN {<<>>} ELSE {})
    ELSE ObjFields(Tail(ks), m)
         \cup UNION {{(Head(ks) :> x) @@ f : x \in ValuesOfSize(i),
                                             f \in ObjFields(Tail(ks), m - i)} : i \in 1..m}
\* values of exactly n nodes (a container counts one node plus its members)
ValuesOfSize(n) ==
    IF n = 1 THEN Scalars \cup {JArr(<<>>), JObj(<<>>)}
    ELSE {JArr(s) : s \in SeqsOfTotal(n - 1)} \cup {JObj(f) : f \in ObjFields(SelectSeq(MapKeyOrder, LAMBDA key : key \in Keys), n - 1)}

Values == UNION {ValuesOfSize(n) : n \in 1..MaxNodes}

\* the keys of a map, in Map iteration order
MapKeys(map) == SelectSeq(MapKeyOrder, LAMBDA key : key \in DOMAIN map)

(***************************************************************************)
(* AttributeChange constructors                                            *)
(***************************************************************************)
AttributeChange(path, before, after) == [path |-> path, before |-> before, after |-> after]
added(path, value) == AttributeChange(path, None, Some(value))
removed(path, value) == AttributeChange(path, Some(value), None)
modified(path, before, after) == AttributeChange(path, Some(before), Some(after))

\* format!("{}.{}", prefix, key), or the bare key under an empty prefix
KeyPath(prefix, key) == IF prefix = "" THEN key ELSE prefix \o "." \o key
\* format!("{}[{}]", prefix, idx)
IndexPath(prefix, idx) == IF prefix = "" THEN "[" \o ToString(idx) \o "]"
                          ELSE prefix \o "[" \o ToString(idx) \o "]"

(***************************************************************************)
(* collect_all_fields                                                      *)
(***************************************************************************)
RECURSIVE collect_all_fields(_, _), CollectMap(_, _, _), CollectArr(_, _, _)
\* faulty variant: only nested objects are expanded, an array is one change
CollectMap_arrays_whole(prefix, map, keys) ==
    IF keys = <<>> THEN <<>>
    ELSE LET key == Head(keys)
             val == map[key]
             path == KeyPath(prefix, key)
         IN (IF val.k = "obj" THEN collect_all_fields(path, val)
             ELSE <<added(path, val)>>)
            \o CollectMap(prefix, map, Tail(keys))
CollectMap(prefix, map, keys) ==
    IF keys = <<>> THEN <<>>
    ELSE LET key == Head(keys)
             val == map[key]
             path == KeyPath(prefix, key)
         IN (IF IsContainer(val) THEN collect_all_fields(path, val)
             ELSE <<added(path, val)>>)
            \o CollectMap(prefix, map, Tail(keys))
\* idx is the 0-based index of the next element
CollectArr(prefix, arr, idx) ==
    IF idx >= Len(arr) THEN <<>>
    ELSE LET val == arr[idx + 1]
             path == IndexPath(prefix, idx)
         IN (IF IsContainer(val) THEN collect_all_fields(path, val)
             ELSE <<added(path, val)>>)
            \o CollectArr(prefix, arr, idx + 1)
collect_all_fields(prefix, value) ==
    CASE value.k = "obj" -> CollectMap(prefix, value.v, MapKeys(value.v))
      [] value.k = "arr" -> CollectArr(prefix, value.v, 0)
      [] OTHER -> IF prefix # "" THEN <<added(prefix, value)>> ELSE <<>>

\* collect_all_fields(..) mapped to AttributeChange::removed(change.path, change.after.unwrap())
RECURSIVE AsRemoved(_)
\* faulty variant: the collected additions are passed on unconverted
AsRemoved_unconverted(changes) == changes
AsRemoved(changes) ==
    IF changes = <<>> THEN <<>>
    ELSE <<removed(Head(changes).path, Head(changes).after.v)>> \o AsRemoved(Tail(changes))

(***************************************************************************)
(* compute_json_diff                                                       *)
(***************************************************************************)
\* The orders in which a std HashSet of keys may be iterated.
KeyOrdersOf(S) == {o \in [1..Cardinality(S) -> S] : \A i, j \in DOMAIN o : i # j => o[i] # o[j]}
KeyOrders == KeyOrdersOf(Keys)
\* the keys of the objects of a value, at any depth
RECURSIVE KeysIn(_)
KeysIn(value) ==
    CASE value.k = "obj" -> DOMAIN value.v \cup UNION {KeysIn(value.v[key]) : key \in DOMAIN value.v}
      [] value.k = "arr" -> UNION {KeysIn(value.v[i]) : i \in DOMAIN value.v}
      [] OTHER -> {}
\* the iteration orders of the key sets built while prior and proposed are compared
OrdersFor(prior, proposed) ==
    KeyOrdersOf(Keys \cup (IF prior.k = "some" THEN KeysIn(prior.v) ELSE {}) \cup KeysIn(proposed))

SameContainerKind(x, y) == (x.k = "obj" /\ y.k = "obj") \/ (x.k = "arr" /\ y.k = "arr")

RECURSIVE compute_json_diff(_, _, _, _), DiffMap(_, _, _, _, _), DiffArr(_, _, _, _, _),
          DiffMember(_, _, _, _)

\* faulty variant: values of different kinds are reported as a removal and an addition
DiffMember_remove_add(path, prior_val, proposed_val, ord) ==
    CASE prior_val.k = "some" /\ proposed_val.k = "some" ->
            IF prior_val.v # proposed_val.v
            THEN IF SameContainerKind(prior_val.v, proposed_val.v)
                 THEN compute_json_diff(path, prior_val.v, proposed_val.v, ord)
                 ELSE <<removed(path, prior_val.v), added(path, proposed_val.v)>>
            ELSE <<>>
      [] prior_val.k = "some" /\ proposed_val.k = "none" ->
            IF IsContainer(prior_val.v)
            THEN AsRemoved(collect_all_fields(path, prior_val.v))
            ELSE <<removed(path, prior_val.v)>>
      [] prior_val.k = "none" /\ proposed_val.k = "some" ->
            IF IsContainer(proposed_val.v)
            THEN collect_all_fields(path, proposed_val.v)
            ELSE <<added(path, proposed_val.v)>>
      [] OTHER -> <<>>
\* one key or index: both sides as Option (prior_map.get(key) / prior_arr.get(idx))
DiffMember(path, prior_val, proposed_val, ord) ==
    CASE prior_val.k = "some" /\ proposed_val.k = "some" ->
            IF prior_val.v # proposed_val.v
            THEN IF SameContainerKind(prior_val.v, proposed_val.v)
                 THEN compute_json_diff(path, prior_val.v, proposed_val.v, ord)
                 ELSE <<modified(path, prior_val.v, proposed_val.v)>>
            ELSE <<>>
      [] prior_val.k = "some" /\ proposed_val.k = "none" ->
            IF IsContainer(prior_val.v)
            THEN AsRemoved(collect_all_fields(path, prior_val.v))
            ELSE <<removed(path, prior_val.v)>>
      [] prior_val.k = "none" /\ proposed_val.k = "some" ->
            IF IsContainer(proposed_val.v)
            THEN collect_all_fields(path, proposed_val.v)
            ELSE <<added(path, proposed_val.v)>>
      [] OTHER -> <<>>

\* map.get(key)
MapGet(map, key) == IF key \in DOMAIN map THEN Some(map[key]) ELSE None
\* arr.get(idx), idx 0-based
ArrGet(arr, idx) == IF idx < Len(arr) THEN Some(arr[idx + 1]) ELSE None

\* faulty variant: the loop ends at the first key that gave a change
DiffMap_until_first_change(prefix, prior_map, proposed_map, keys, ord) ==
    IF keys = <<>> THEN <<>>
    ELSE LET key == Head(keys)
             here == DiffMember(KeyPath(prefix, key), MapGet(prior_map, key),
                                MapGet(proposed_map, key), ord)
         IN IF here # <<>> THEN here
            ELSE DiffMap(prefix, prior_map, proposed_map, Tail(keys), ord)
\* `for key in all_keys`: keys is what is left of the iteration
DiffMap(prefix, prior_map, proposed_map, keys, ord) ==
    IF keys = <<>> THEN <<>>
    ELSE LET key == Head(keys)
         IN DiffMember(KeyPath(prefix, key), MapGet(prior_map, key), MapGet(proposed_map, key), ord)
            \o DiffMap(prefix, prior_map, proposed_map, Tail(keys), ord)

\* faulty variant: the loop stops at the length of the shorter array
DiffArr_min_len(prefix, prior_arr, proposed_arr, idx, ord) ==
    LET min_len == IF Len(prior_arr) <= Len(proposed_arr) THEN Len(prior_arr) ELSE Len(proposed_arr)
    IN IF idx >= min_len THEN <<>>
       ELSE DiffMember(IndexPath(prefix, idx), ArrGet(prior_arr, idx), ArrGet(proposed_arr, idx), ord)
            \o DiffArr(prefix, prior_arr, proposed_arr, idx + 1, ord)
\* `for idx in 0..max_len`
DiffArr(prefix, prior_arr, proposed_arr, idx, ord) ==
    LET max_len == IF Len(prior_arr) >= Len(proposed_arr) THEN Len(prior_arr) ELSE Len(proposed_arr)
    IN IF idx >= max_len THEN <<>>
       ELSE DiffMember(IndexPath(prefix, idx), ArrGet(prior_arr, idx), ArrGet(proposed_arr, idx), ord)
            \o DiffArr(prefix, prior_arr, proposed_arr, idx + 1, ord)

\* the match on (prior, proposed) that follows the equality test
DiffUnequal(prefix, prior, proposed, ord) ==
    CASE prior.k = "obj" /\ proposed.k = "obj" ->
            DiffMap(prefix, prior.v, proposed.v,
                    SelectSeq(ord, LAMBDA key : key \in (DOMAIN prior.v \cup DOMAIN proposed.v)), ord)
      [] prior.k = "arr" /\ proposed.k = "arr" ->
            DiffArr(prefix, prior.v, proposed.v, 0, ord)
      [] OTHER ->
            IF prefix # "" THEN <<modified(prefix, prior, proposed)>>
            ELSE <<modified("(root)", prior, proposed)>>

\* faulty variant: the `prior == proposed` early return is missing
compute_json_diff_no_equal_return(prefix, prior, proposed, ord) ==
    DiffUnequal(prefix, prior, proposed, ord)

compute_json_diff(prefix, prior, proposed, ord) ==
    IF prior = proposed THEN <<>>
    ELSE DiffUnequal(prefix, prior, proposed, ord)

(***************************************************************************)
(* PlanResult::from_diff                                                   *)
(***************************************************************************)
PlanResult(planned_state, changes, requires_replace) ==
    [planned_state |-> planned_state, changes |-> changes, requires_replace |-> requires_replace]

\* faulty variant: the planned state is taken from the prior state when there is one
from_diff_keeps_prior(prior, proposed, ord) ==
    IF prior.k = "none"
    THEN PlanResult(proposed, collect_all_fields("", proposed), FALSE)
    ELSE PlanResult(prior.v, compute_json_diff("", prior.v, proposed, ord), FALSE)

from_diff(prior, proposed, ord) ==
    IF prior.k = "none"
    THEN PlanResult(proposed, collect_all_fields("", proposed), FALSE)
    ELSE PlanResult(proposed, compute_json_diff("", prior.v, proposed, ord), FALSE)

(***************************************************************************)
(* Parts of the state a specification does not use stay as set here.       *)
(***************************************************************************)
ServeIdle ==
    /\ pc = "start" /\ stdout = <<>> /\ log = <<>>
    /\ reqAddr = None /\ boundAddr = None
    /\ accepting = FALSE /\ accepted = 0 /\ inflight = 0
    /\ signalled = FALSE /\ shutdownSeen = FALSE /\ now = 0 /\ sigAt = -1
    /\ shutdownResult = "pending" /\ stopCalls = 0 /\ stopAt = None
    /\ stopFails = FALSE /\ rpcStopCalls = 0 /\ result = "none"
DiffIdle == d_prior = None /\ d_proposed = JNull /\ d_order = <<>> /\ d_result = None
RpcIdle == rpc_req = None /\ rpc_outcome = None /\ rpc_call = None /\ rpc_resp = None
ValidateIdle == v_schema = None /\ v_value = JNull /\ v_order = <<>> /\ v_result = None
TypesIdle == t_change = None /\ t_proto = None /\ t_back = None /\ t_version = 0 /\ t_check = None
TesterIdle ==
    /\ pt_pc = "idle" /\ pt_args = None /\ pt_calls = <<>> /\ pt_returns = <<>>
    /\ pt_locals = None /\ pt_result = None

(***************************************************************************)
(* DiffSpec: PlanResult::from_diff applied to every pair of inputs         *)
(***************************************************************************)
DiffInit ==
    /\ d_prior \in {None} \cup {Some(x) : x \in Values}
    /\ d_proposed \in Values
    /\ d_order = <<>>
    /\ d_result = None
    /\ ServeIdle /\ RpcIdle /\ ValidateIdle /\ TypesIdle /\ TesterIdle

\* let result = PlanResult::from_diff(prior, &proposed);
FromDiff ==
    /\ d_result = None
    /\ \E ord \in OrdersFor(d_prior, d_proposed) :
          /\ d_order' = ord
          /\ d_result' = Some(from_diff(d_prior, d_proposed, ord))
    /\ UNCHANGED <<d_prior, d_proposed, serveVars, rpcVars, validateVars, typesVars, testerVars>>

DiffNext == FromDiff
DiffSpec == DiffInit /\ [][DiffNext]_vars

\* C9: whatever the prior state (absent or present) and the proposed value,
\* from_diff returns planned_state = proposed and requires_replace = false.
C9_PlannedIsProposed ==
    d_result # None =>
        /\ d_result.v.planned_state = d_proposed
        /\ d_result.v.requires_replace = FALSE
\* a present prior that differs from the proposed value has been diffed
C9_Witness ==
    /\ d_result # None /\ d_prior # None /\ d_prior.v # d_proposed
    /\ d_result.v.changes # <<>>
    /\ d_result.v.planned_state = d_proposed

\* C10: for every JSON value x, from_diff(Some(x), x) has no changes,
\* planned_state = x and requires_replace = false.
C10_DiffOfEqualIsEmpty ==
    (d_result # None /\ d_prior = Some(d_proposed)) =>
        d_result.v = PlanResult(d_proposed, <<>>, FALSE)
\* a nested container (an object holding an array or object) diffed with itself
C10_Witness ==
    /\ d_result # None /\ d_prior = Some(d_proposed)
    /\ d_proposed.k = "obj"
    /\ \E key \in DOMAIN d_proposed.v : IsContainer(d_proposed.v[key])
                                        /\ d_proposed.v[key].v # <<>>
    /\ d_result.v.changes = <<>>

(***************************************************************************)
(* Positions of a JSON value, used to state what the diff must contain     *)
(***************************************************************************)
\* one step into a value: an object key or a 0-based array index
KeySeg(key) == [t |-> "key", key |-> key, idx |-> 0]
IdxSeg(idx) == [t |-> "idx", key |-> "", idx |-> idx]

\* the text of a position, written left to right: `.key` after a non-empty
\* text (the bare key at the start), `[index]` for an array element
RECURSIVE RenderFrom(_, _)
RenderFrom(text, segs) ==
    IF segs = <<>> THEN text
    ELSE LET s == Head(segs)
             next == IF s.t = "key"
                     THEN (IF text = "" THEN s.key ELSE text \o "." \o s.key)
                     ELSE text \o "[" \o ToString(s.idx) \o "]"
         IN RenderFrom(next, Tail(segs))
Render(segs) == RenderFrom("", segs)

\* the members of a container as <<segment, member>> pairs
Members(value) ==
    CASE value.k = "obj" -> {<<KeySeg(key), value.v[key]>> : key \in DOMAIN value.v}
      [] value.k = "arr" -> {<<IdxSeg(i - 1), value.v[i]>> : i \in DOMAIN value.v}
      [] OTHER -> {}

\* the scalar leaves at or beneath a value, each with its position relative to it
RECURSIVE LeavesOf(_)
LeavesOf(value) ==
    IF IsContainer(value)
    THEN UNION {{<<<<m[1]>> \o l[1], l[2]>> : l \in LeavesOf(m[2])} : m \in Members(value)}
    ELSE {<<<<>>, value>>}

\* every position at or beneath a value, relative to it
RECURSIVE PositionsOf(_)
PositionsOf(value) ==
    {<<>>} \cup UNION {{<<m[1]>> \o p : p \in PositionsOf(m[2])} : m \in Members(value)}

\* the changes of a list whose path is one of the given paths
ChangesAt(changes, paths) == SelectSeq(changes, LAMBDA c : c.path \in paths)
ChangeSet(changes) == {changes[i] : i \in DOMAIN changes}

\* C11: from_diff(None, proposed) returns exactly one change per scalar leaf
\* reachable inside proposed and nothing else: each is an addition (before
\* absent, after = the leaf) whose path is built left to right with `.key`
\* and `[index]`; no object or array is emitted as one change; a bare scalar
\* proposed value yields no changes.
C11_CreateListsEveryLeaf ==
    (d_result # None /\ d_prior = None) =>
        LET changes == d_result.v.changes
            leaves == LeavesOf(d_proposed)
        IN IF IsContainer(d_proposed)
           THEN /\ Len(changes) = Cardinality(leaves)
                /\ ChangeSet(changes) = {added(Render(l[1]), l[2]) : l \in leaves}
                /\ \A i \in DOMAIN changes : ~IsContainer(changes[i].after.v)
           ELSE changes = <<>>
\* a created object holding an array: a leaf under a key and under an index
C11_Witness ==
    /\ d_result # None /\ d_prior = None
    /\ d_proposed.k = "obj"
    /\ \E key \in DOMAIN d_proposed.v :
          /\ d_proposed.v[key].k = "arr"
          /\ d_proposed.v[key].v # <<>>
          /\ \E i \in DOMAIN d_result.v.changes :
                d_result.v.changes[i] = added(key \o "[0]", d_proposed.v[key].v[1])

\* both values are objects, or both are arrays
BothObjectsOrBothArrays(p, q) == p.k = q.k /\ p.k \in {"obj", "arr"}

\* the positions at which both sides hold a value, as <<position, prior value,
\* proposed value>>: the root, and the members the two sides share beneath a
\* position where both are objects or both are arrays
RECURSIVE CommonPairs(_, _)
CommonPairs(p, q) ==
    {<<<<>>, p, q>>} \cup
    (IF BothObjectsOrBothArrays(p, q)
     THEN UNION {{<<<<mp[1]>> \o c[1], c[2], c[3]>> : c \in CommonPairs(mp[2], mq[2])} :
                 <<mp, mq>> \in {x \in Members(p) \X Members(q) : x[1][1] = x[2][1]}}
     ELSE {})

\* the text of a position in an update diff: the root is written `(root)`
RenderRoot(segs) == IF segs = <<>> THEN "(root)" ELSE Render(segs)

\* the texts of the positions strictly beneath segs in either value
DeeperPaths(segs, p, q) ==
    {Render(segs \o s) : s \in (PositionsOf(p) \cup PositionsOf(q)) \ {<<>>}}

\* C12: in from_diff(Some(prior), proposed), wherever the two sides hold
\* unequal values at the same path that are not both objects and not both
\* arrays, exactly one change is emitted for that path, a modification whose
\* before is the whole prior value and whose after is the whole proposed
\* value, and no change is emitted for a deeper path; at the root the path
\* is the literal `(root)`.
C12_MismatchIsOneModification ==
    (d_result # None /\ d_prior # None) =>
        \A c \in CommonPairs(d_prior.v, d_proposed) :
            (c[2] # c[3] /\ ~BothObjectsOrBothArrays(c[2], c[3])) =>
                /\ ChangesAt(d_result.v.changes, {RenderRoot(c[1])})
                      = <<modified(RenderRoot(c[1]), c[2], c[3])>>
                /\ ChangesAt(d_result.v.changes, DeeperPaths(c[1], c[2], c[3])) = <<>>
\* under a shared key a scalar is replaced by a non-empty array
C12_Witness ==
    /\ d_result # None /\ d_prior # None
    /\ d_prior.v.k = "obj" /\ d_proposed.k = "obj"
    /\ \E key \in DOMAIN d_prior.v.v \cap DOMAIN d_proposed.v :
          /\ ~IsContainer(d_prior.v.v[key])
          /\ d_proposed.v[key].k = "arr" /\ d_proposed.v[key].v # <<>>
          /\ d_result.v.changes = <<modified(key, d_prior.v.v[key], d_proposed.v[key])>>

\* the members that only one side holds, as <<position, value>>, beneath the
\* positions where both sides are objects or both are arrays
OnlyIn(p, q) ==
    UNION {{<<c[1] \o <<m[1]>>, m[2]>> :
              m \in {x \in Members(c[2]) : \A y \in Members(c[3]) : y[1] # x[1]}} :
           c \in {x \in CommonPairs(p, q) : BothObjectsOrBothArrays(x[2], x[3])}}

\* the texts of the positions at or beneath segs in a value
PathsWithin(segs, value) == {Render(segs \o s) : s \in PositionsOf(value)}

\* C13: a key or index that exists on only one side yields only additions
\* (only in proposed) or only removals (only in prior): a scalar gives one
\* change at that path, an object or array gives one change per scalar leaf
\* beneath it, carrying the leaf value as after (addition) or before
\* (removal); arrays are compared index by index up to the longer length.
C13_OneSidedIsExpanded ==
    (d_result # None /\ d_prior # None) =>
        /\ \A o \in OnlyIn(d_proposed, d_prior.v) :
              LET here == ChangesAt(d_result.v.changes, PathsWithin(o[1], o[2]))
              IN /\ Len(here) = Cardinality(LeavesOf(o[2]))
                 /\ ChangeSet(here) = {added(Render(o[1] \o l[1]), l[2]) : l \in LeavesOf(o[2])}
        /\ \A o \in OnlyIn(d_prior.v, d_proposed) :
              LET here == ChangesAt(d_result.v.changes, PathsWithin(o[1], o[2]))
              IN /\ Len(here) = Cardinality(LeavesOf(o[2]))
                 /\ ChangeSet(here) = {removed(Render(o[1] \o l[1]), l[2]) : l \in LeavesOf(o[2])}
\* a key holding a non-empty array or object is dropped from an object
C13_Witness ==
    /\ d_result # None /\ d_prior # None
    /\ d_prior.v.k = "obj" /\ d_proposed.k = "obj"
    /\ \E key \in DOMAIN d_prior.v.v \ DOMAIN d_proposed.v :
          /\ IsContainer(d_prior.v.v[key])
          /\ LeavesOf(d_prior.v.v[key]) # {}
          /\ \E i \in DOMAIN d_result.v.changes :
                /\ d_result.v.changes[i].before # None
                /\ d_result.v.changes[i].after = None
                /\ d_result.v.changes[i].path # key

PathsOf(changes) == {changes[i].path : i \in DOMAIN changes}

\* C14: for every JSON object v, the changes of from_diff(None, v) and of
\* from_diff(Some(v), {}) cover the same set of paths, and for each path the
\* addition's after value equals the removal's before value.
C14_CreateMirrorsRemoveAll ==
    (d_result # None /\ d_prior = None /\ d_proposed.k = "obj") =>
        \A ord \in KeyOrders :
            LET additions == d_result.v.changes
                removals == from_diff(Some(d_proposed), JObj(<<>>), ord).changes
            IN /\ PathsOf(additions) = PathsOf(removals)
               /\ \A i \in DOMAIN additions, j \in DOMAIN removals :
                     additions[i].path = removals[j].path =>
                        /\ additions[i].before = None /\ removals[j].after = None
                        /\ additions[i].after = removals[j].before
\* an object holding a nested object with a leaf, created and removed whole
C14_Witness ==
    /\ d_result # None /\ d_prior = None /\ d_proposed.k = "obj"
    /\ \E key \in DOMAIN d_proposed.v :
          /\ d_proposed.v[key].k = "obj"
          /\ \E inner \in DOMAIN d_proposed.v[key].v :
                LET leaf == d_proposed.v[key].v[inner]
                    path == key \o "." \o inner
                IN /\ d_result.v.changes = <<added(path, leaf)>>
                   /\ from_diff(Some(d_proposed), JObj(<<>>), d_order).changes
                         = <<removed(path, leaf)>>


\* C24: the changes of from_diff, taken as a set of (path, before, after)
\* triples, and their number depend on prior and proposed alone: every
\* iteration order of the keys gives the same set and the same count.
C24_ContentIsOrderIndependent ==
    d_result # None =>
        \A ord \in OrdersFor(d_prior, d_proposed) :
            LET other == from_diff(d_prior, d_proposed, ord).changes
            IN /\ ChangeSet(other) = ChangeSet(d_result.v.changes)
               /\ Len(other) = Len(d_result.v.changes)
\* two objects that differ at both keys: another iteration order gives the
\* same changes in another sequence
C24_Witness ==
    /\ d_result # None /\ d_prior # None
    /\ Len(d_result.v.changes) >= 2
    /\ \E ord \in OrdersFor(d_prior, d_proposed) :
          /\ from_diff(d_prior, d_proposed, ord).changes # d_result.v.changes
          /\ ChangeSet(from_diff(d_prior, d_proposed, ord).changes)
                 = ChangeSet(d_result.v.changes)

\* C25: from_diff(Some(prior), proposed) returns an empty changes list if and
\* only if prior equals proposed.
C25_EmptyIffEqual ==
    (d_result # None /\ d_prior # None) =>
        (d_result.v.changes = <<>> <=> d_prior.v = d_proposed)
\* the direction that holds: values that give a change differ
C25_ChangesOnlyIfDifferent ==
    (d_result # None /\ d_prior # None) =>
        (d_result.v.changes # <<>> => d_prior.v # d_proposed)

(***************************************************************************)
(* PathSpec: from_diff applied to objects whose keys hold `.` and `[`      *)
(***************************************************************************)
PathKeys == {"a"} \cup PunctuatedKeys
PathMembers == {JNum(1), JObj("b" :> JNum(1)), JArr(<<JNum(1)>>)}
PathValues == {JObj(f) : f \in UNION {[S -> PathMembers] : S \in SUBSET PathKeys}}

PathInit ==
    /\ d_prior \in {None} \cup {Some(x) : x \in PathValues}
    /\ d_proposed \in PathValues
    /\ d_order = <<>>
    /\ d_result = None
    /\ ServeIdle /\ RpcIdle /\ ValidateIdle /\ TypesIdle /\ TesterIdle
PathSpec == PathInit /\ [][DiffNext]_vars

\* C26: in every result of from_diff no two changes have the same path,
\* whatever the keys of the objects are.
C26_PathsAreDistinct ==
    d_result # None =>
        \A i, j \in DOMAIN d_result.v.changes :
            i # j => d_result.v.changes[i].path # d_result.v.changes[j].path

(***************************************************************************)
(* Server runtime: serve, serve_on and their *_with_options forms          *)
(***************************************************************************)
HANDSHAKE_PREFIX == "HEMMER_PROVIDER"
PROTOCOL_VERSION == 1
MIN_PROTOCOL_VERSION == 1

SocketAddr(host, port) == [host |-> host, port |-> port]
\* Display of a SocketAddr
AddrToString(addr) == addr.host \o ":" \o ToString(addr.port)

\* serve binds "127.0.0.1:0"; serve_on binds the caller's address
ServeAddr == SocketAddr("127.0.0.1", 0)
ServeOnAddrs == {SocketAddr("127.0.0.1", 50051), SocketAddr("0.0.0.0", 0)}
\* ports the system hands out for port 0
EphemeralPorts == {40001, 40002}

\* listener.local_addr() of a listener bound to addr
LocalAddrs(addr) ==
    IF addr.port = 0 THEN {SocketAddr(addr.host, p) : p \in EphemeralPorts} ELSE {addr}

\* format!("{}|{}|{}", HANDSHAKE_PREFIX, PROTOCOL_VERSION, addr)
HandshakeLine(addr) ==
    HANDSHAKE_PREFIX \o "|" \o ToString(PROTOCOL_VERSION) \o "|" \o AddrToString(addr)

Init ==
    /\ pc = "start" /\ stdout = <<>> /\ log = <<>>
    /\ reqAddr \in {ServeAddr} \cup ServeOnAddrs
    /\ boundAddr = None
    /\ accepting = FALSE /\ accepted = 0 /\ inflight = 0
    /\ signalled = FALSE /\ shutdownSeen = FALSE /\ now = 0 /\ sigAt = -1
    /\ shutdownResult = "pending" /\ stopCalls = 0 /\ stopAt = None
    /\ stopFails \in BOOLEAN
    /\ rpcStopCalls = 0
    /\ result = "none"
    /\ DiffIdle /\ RpcIdle /\ ValidateIdle /\ TypesIdle /\ TesterIdle

\* TcpListener::bind(addr).await? ; listener.local_addr()?  -- both succeed
BindOk ==
    /\ pc = "start"
    /\ \E a \in LocalAddrs(reqAddr) : boundAddr' = Some(a)
    /\ pc' = "bound"
    /\ UNCHANGED <<stdout, log, reqAddr, accepting, accepted, inflight, signalled,
                   shutdownSeen, now, sigAt, shutdownResult, stopCalls, stopAt,
                   stopFails, rpcStopCalls, result, diffVars, rpcVars, validateVars, typesVars, testerVars>>

\* TcpListener::bind(addr).await? or listener.local_addr()? returns the error
BindErr ==
    /\ pc = "start"
    /\ pc' = "done"
    /\ result' = "err"
    /\ UNCHANGED <<stdout, log, reqAddr, boundAddr, accepting, accepted, inflight,
                   signalled, shutdownSeen, now, sigAt, shutdownResult, stopCalls,
                   stopAt, stopFails, rpcStopCalls, diffVars, rpcVars, validateVars, typesVars, testerVars>>

\* faulty variant: the handshake announces the requested address, not the bound one
Handshake_requested_addr ==
    /\ pc = "bound"
    /\ stdout' = Append(stdout, HandshakeLine(reqAddr))
    /\ log' = Append(log, "info: Provider server starting")
    /\ pc' = "handshaken"
    /\ UNCHANGED <<reqAddr, boundAddr, accepting, accepted, inflight, signalled,
                   shutdownSeen, now, sigAt, shutdownResult, stopCalls, stopAt,
                   stopFails, rpcStopCalls, result, diffVars, rpcVars, validateVars, typesVars, testerVars>>

\* println!("{}|{}|{}", HANDSHAKE_PREFIX, PROTOCOL_VERSION, addr); info!(..)
Handshake ==
    /\ pc = "bound"
    /\ stdout' = Append(stdout, HandshakeLine(boundAddr.v))
    /\ log' = Append(log, "info: Provider server starting")
    /\ pc' = "handshaken"
    /\ UNCHANGED <<reqAddr, boundAddr, accepting, accepted, inflight, signalled,
                   shutdownSeen, now, sigAt, shutdownResult, stopCalls, stopAt,
                   stopFails, rpcStopCalls, result, diffVars, rpcVars, validateVars, typesVars, testerVars>>

\* tokio::time::timeout(options.shutdown_timeout, server_future) is created and
\* first polled: the deadline is armed and the accept loop starts
StartServing ==
    /\ pc = "handshaken"
    /\ pc' = "serving"
    /\ accepting' = TRUE
    /\ now' = 0
    /\ UNCHANGED <<stdout, log, reqAddr, boundAddr, accepted, inflight, signalled,
                   shutdownSeen, sigAt, shutdownResult, stopCalls, stopAt,
                   stopFails, rpcStopCalls, result, diffVars, rpcVars, validateVars, typesVars, testerVars>>

\* the accept loop takes a connection
Accept ==
    /\ pc = "serving" /\ accepting
    /\ accepted < MaxAccepted
    /\ accepted' = accepted + 1
    /\ UNCHANGED <<pc, stdout, log, reqAddr, boundAddr, accepting, inflight, signalled,
                   shutdownSeen, now, sigAt, shutdownResult, stopCalls, stopAt,
                   stopFails, rpcStopCalls, result, diffVars, rpcVars, validateVars, typesVars, testerVars>>

\* a request on an accepted connection is dispatched to a provider method
Dispatch ==
    /\ pc = "serving" /\ ~shutdownSeen
    /\ accepted > 0
    /\ inflight < MaxInflight
    /\ inflight' = inflight + 1
    /\ UNCHANGED <<pc, stdout, log, reqAddr, boundAddr, accepting, accepted, signalled,
                   shutdownSeen, now, sigAt, shutdownResult, stopCalls, stopAt,
                   stopFails, rpcStopCalls, result, diffVars, rpcVars, validateVars, typesVars, testerVars>>

\* a provider method returns and its response is sent; connection tasks are
\* spawned on the runtime, so this goes on until serve has returned
CallReturns ==
    /\ pc \in {"serving", "stopping", "stop_running"}
    /\ inflight > 0
    /\ inflight' = inflight - 1
    /\ UNCHANGED <<pc, stdout, log, reqAddr, boundAddr, accepting, accepted, signalled,
                   shutdownSeen, now, sigAt, shutdownResult, stopCalls, stopAt,
                   stopFails, rpcStopCalls, result, diffVars, rpcVars, validateVars, typesVars, testerVars>>

\* the Stop RPC: info!("Stop called"); self.provider.stop().await; the outcome
\* is logged and answered in StopResponse.error, never as an RPC error
StopRpc ==
    /\ pc = "serving" /\ ~shutdownSeen
    /\ accepted > 0
    /\ rpcStopCalls < MaxStopRpcs
    /\ rpcStopCalls' = rpcStopCalls + 1
    /\ log' = log \o <<"info: Stop called",
                       IF stopFails THEN "error: Stop failed"
                       ELSE "info: Stop completed successfully">>
    /\ UNCHANGED <<pc, stdout, reqAddr, boundAddr, accepting, accepted, inflight, signalled,
                   shutdownSeen, now, sigAt, shutdownResult, stopCalls, stopAt,
                   stopFails, result, diffVars, rpcVars, validateVars, typesVars, testerVars>>

\* SIGTERM or SIGINT is delivered while wait_for_shutdown_signal is installed
Signal ==
    /\ pc = "serving" /\ ~signalled
    /\ signalled' = TRUE
    /\ sigAt' = now
    /\ UNCHANGED <<pc, stdout, log, reqAddr, boundAddr, accepting, accepted, inflight,
                   shutdownSeen, now, shutdownResult, stopCalls, stopAt,
                   stopFails, rpcStopCalls, result, diffVars, rpcVars, validateVars, typesVars, testerVars>>

\* wait_for_shutdown_signal() resolves inside serve_with_incoming_shutdown:
\* the server stops accepting and waits for the in-flight calls
BeginDrain ==
    /\ pc = "serving" /\ signalled /\ ~shutdownSeen
    /\ shutdownSeen' = TRUE
    /\ accepting' = FALSE
    /\ UNCHANGED <<pc, stdout, log, reqAddr, boundAddr, accepted, inflight, signalled,
                   now, sigAt, shutdownResult, stopCalls, stopAt,
                   stopFails, rpcStopCalls, result, diffVars, rpcVars, validateVars, typesVars, testerVars>>

\* time passes while the timeout future is pending
Tick ==
    /\ pc = "serving"
    /\ now < ShutdownTimeout
    /\ now' = now + 1
    /\ UNCHANGED <<pc, stdout, log, reqAddr, boundAddr, accepting, accepted, inflight,
                   signalled, shutdownSeen, sigAt, shutdownResult, stopCalls, stopAt,
                   stopFails, rpcStopCalls, result, diffVars, rpcVars, validateVars, typesVars, testerVars>>

\* shutdown_result = Ok(Ok(())): the server future completed after the drain
DrainComplete ==
    /\ pc = "serving" /\ shutdownSeen /\ inflight = 0
    /\ shutdownResult' = "clean"
    /\ log' = Append(log, "info: Server shutdown complete")
    /\ pc' = "stopping"
    /\ UNCHANGED <<stdout, reqAddr, boundAddr, accepting, accepted, inflight, signalled,
                   shutdownSeen, now, sigAt, stopCalls, stopAt,
                   stopFails, rpcStopCalls, result, diffVars, rpcVars, validateVars, typesVars, testerVars>>

\* shutdown_result = Ok(Err(e)): return Err(e.into())
TransportError ==
    /\ pc = "serving"
    /\ shutdownResult' = "error"
    /\ log' = Append(log, "error: Server error during shutdown")
    /\ accepting' = FALSE
    /\ result' = "err"
    /\ pc' = "done"
    /\ UNCHANGED <<stdout, reqAddr, boundAddr, accepted, inflight, signalled,
                   shutdownSeen, now, sigAt, stopCalls, stopAt,
                   stopFails, rpcStopCalls, diffVars, rpcVars, validateVars, typesVars, testerVars>>

\* faulty variant: the timeout arm returns without going on to stop()
TimeoutElapsed_returns ==
    /\ pc = "serving"
    /\ now >= ShutdownTimeout
    /\ shutdownResult' = "elapsed"
    /\ log' = Append(log, "warn: Shutdown timeout exceeded, forcing shutdown")
    /\ accepting' = FALSE
    /\ result' = "ok"
    /\ pc' = "done"
    /\ UNCHANGED <<stdout, reqAddr, boundAddr, accepted, inflight, signalled,
                   shutdownSeen, now, sigAt, stopCalls, stopAt,
                   stopFails, rpcStopCalls, diffVars, rpcVars, validateVars, typesVars, testerVars>>

\* shutdown_result = Err(Elapsed): shutdown_timeout has passed since the timeout
\* was armed; the server future, and the listener it owns, is dropped
TimeoutElapsed ==
    /\ pc = "serving"
    /\ now >= ShutdownTimeout
    /\ shutdownResult' = "elapsed"
    /\ log' = Append(log, "warn: Shutdown timeout exceeded, forcing shutdown")
    /\ accepting' = FALSE
    /\ pc' = "stopping"
    /\ UNCHANGED <<stdout, reqAddr, boundAddr, accepted, inflight, signalled,
                   shutdownSeen, now, sigAt, stopCalls, stopAt,
                   stopFails, rpcStopCalls, result, diffVars, rpcVars, validateVars, typesVars, testerVars>>

\* provider_for_shutdown.stop() is called
CallStop ==
    /\ pc = "stopping"
    /\ stopCalls' = stopCalls + 1
    /\ stopAt' = Some([now |-> now, inflight |-> inflight, accepting |-> accepting,
                       signalled |-> signalled, shutdownResult |-> shutdownResult])
    /\ log' = Append(log, "debug: Calling provider stop()")
    /\ pc' = "stop_running"
    /\ UNCHANGED <<stdout, reqAddr, boundAddr, accepting, accepted, inflight, signalled,
                   shutdownSeen, now, sigAt, shutdownResult,
                   stopFails, rpcStopCalls, result, diffVars, rpcVars, validateVars, typesVars, testerVars>>

\* faulty variant: an Err from stop() is propagated with `?`
StopReturns_propagates ==
    /\ pc = "stop_running"
    /\ log' = IF stopFails THEN log
              ELSE Append(log, "info: Provider shutdown complete")
    /\ result' = IF stopFails THEN "err" ELSE "ok"
    /\ pc' = "done"
    /\ UNCHANGED <<stdout, reqAddr, boundAddr, accepting, accepted, inflight, signalled,
                   shutdownSeen, now, sigAt, shutdownResult, stopCalls, stopAt,
                   stopFails, rpcStopCalls, diffVars, rpcVars, validateVars, typesVars, testerVars>>

\* stop().await returns: an Err is logged with warn!, then Ok(()) is returned
StopReturns ==
    /\ pc = "stop_running"
    /\ log' = (IF stopFails THEN Append(log, "warn: Provider stop() returned error") ELSE log)
              \o <<"info: Provider shutdown complete">>
    /\ result' = "ok"
    /\ pc' = "done"
    /\ UNCHANGED <<stdout, reqAddr, boundAddr, accepting, accepted, inflight, signalled,
                   shutdownSeen, now, sigAt, shutdownResult, stopCalls, stopAt,
                   stopFails, rpcStopCalls, diffVars, rpcVars, validateVars, typesVars, testerVars>>

Next ==
    \/ BindOk \/ BindErr \/ Handshake \/ StartServing
    \/ Accept \/ Dispatch \/ CallReturns \/ StopRpc
    \/ Signal \/ BeginDrain \/ Tick
    \/ DrainComplete \/ TransportError \/ TimeoutElapsed
    \/ CallStop \/ StopReturns

Spec == Init /\ [][Next]_vars

(***************************************************************************)
(* Properties of the server runtime                                        *)
(***************************************************************************)
InSet(seq, x) == \E i \in DOMAIN seq : seq[i] = x

\* C1: the handshake line HEMMER_PROVIDER|<PROTOCOL_VERSION>|<bound address> is
\* written to stdout exactly once, after the listener is bound and before the
\* first connection is accepted; when the bind fails nothing is written.
C1_HandshakeOnce ==
    /\ Len(stdout) <= 1
    /\ pc \in {"start", "bound"} => stdout = <<>>
    /\ boundAddr = None => stdout = <<>>
    /\ (pc \notin {"start", "bound"} /\ boundAddr # None) =>
           stdout = <<"HEMMER_PROVIDER" \o "|" \o ToString(PROTOCOL_VERSION) \o "|"
                      \o boundAddr.v.host \o ":" \o ToString(boundAddr.v.port)>>
    /\ (accepting \/ accepted > 0) => Len(stdout) = 1
\* a server bound to a system-chosen port has accepted a connection
C1_Witness ==
    /\ accepted > 0 /\ reqAddr.port = 0
    /\ stdout = <<"HEMMER_PROVIDER|1|127.0.0.1:40002">>

\* C2: the runtime leaves the Serve phase, and calls stop(), only after a
\* termination signal has arrived (transport errors aside).
C2_ServeEndsOnlyOnSignal ==
    /\ shutdownResult \in {"clean", "elapsed"} => signalled
    /\ stopCalls > 0 => signalled

\* C3: after a termination signal the runtime calls stop() exactly once, after
\* a clean drain as well as after the shutdown timeout, and never while the
\* server still accepts connections.
C3_StopOnceAfterDrain ==
    /\ stopCalls <= 1
    /\ (signalled /\ pc \in {"stop_running", "done"} /\ shutdownResult \in {"clean", "elapsed"})
           => stopCalls = 1
    /\ stopCalls > 0 =>
           /\ stopAt # None
           /\ ~stopAt.v.accepting
           /\ stopAt.v.shutdownResult \in {"clean", "elapsed"}
    /\ (stopCalls > 0 /\ stopAt.v.shutdownResult = "clean") => stopAt.v.inflight = 0
\* a signalled server whose drain was cut short by the timeout has stopped
C3_Witness ==
    /\ pc = "done" /\ signalled /\ shutdownSeen
    /\ shutdownResult = "elapsed" /\ stopCalls = 1 /\ stopAt.v.inflight > 0

\* C4: once signalled, the runtime goes on to stop() when the in-flight calls
\* have finished or shutdown_timeout has passed since the signal, not earlier.
C4_TimeoutCountedFromSignal ==
    (signalled /\ shutdownResult \notin {"pending", "error"}) =>
        \/ shutdownResult = "clean" /\ (stopAt # None => stopAt.v.inflight = 0)
        \/ shutdownResult = "elapsed" /\ now - sigAt >= ShutdownTimeout

\* C5: serve returns Ok after shutdown whether the drain was clean or timed
\* out and whether stop() succeeded or failed; both are only logged, and
\* stop() and the final log line still happen.
C5_ShutdownReturnsOk ==
    (pc = "done" /\ shutdownResult \in {"clean", "elapsed"}) =>
        /\ result = "ok"
        /\ stopCalls = 1
        /\ log[Len(log)] = "info: Provider shutdown complete"
        /\ stopFails <=> InSet(log, "warn: Provider stop() returned error")
        /\ shutdownResult = "elapsed"
               <=> InSet(log, "warn: Shutdown timeout exceeded, forcing shutdown")
\* the timeout cut the drain short and stop() failed, and serve returned Ok
C5_Witness ==
    /\ pc = "done" /\ shutdownResult = "elapsed" /\ stopFails
    /\ stopCalls = 1 /\ result = "ok"


\* C27: whenever serve has returned after writing the handshake, the
\* provider's stop() has been invoked before the return, also when the
\* server ended with a transport error.
C27_StopBeforeReturn ==
    (pc = "done" /\ stdout # <<>>) => stopCalls + rpcStopCalls >= 1

\* C28: over a whole run, Stop RPCs before the signal included, the
\* provider's stop() is invoked exactly once in total: never more than once,
\* and once when the run has ended after a drain or a timeout.
C28_StopExactlyOnceInTotal ==
    /\ stopCalls + rpcStopCalls <= 1
    /\ (pc = "done" /\ shutdownResult \in {"clean", "elapsed"}) =>
           stopCalls + rpcStopCalls = 1

\* C29: when the runtime invokes stop(), every provider call dispatched from
\* an RPC before has returned, also after the shutdown timeout elapsed.
C29_StopAfterCallsReturned ==
    stopAt # None => stopAt.v.inflight = 0

(***************************************************************************)
(* JSON payloads: serde_json::from_slice and serde_json::to_vec.           *)
(* A payload is the sequence of its JSON tokens; the empty payload is <<>>.*)
(***************************************************************************)
NumTok == [t \in {"0", "1", "2", "1.5"} |->
              CASE t = "0" -> JNum(0) [] t = "1" -> JNum(1) [] t = "2" -> JNum(2)
                [] t = "1.5" -> JFract(1)]
StrTok == [t \in {"\"\"", "\"1\"", "\"a\"", "\"b\""} |->
              CASE t = "\"\"" -> "" [] t = "\"1\"" -> "1" [] t = "\"a\"" -> "a"
                [] t = "\"b\"" -> "b"]
BoolTok == [t \in {"true", "false"} |-> t = "true"]

\* the deserializer's remaining_depth when from_slice starts
RecursionLimit == 128

ParseOk(v, next) == [ok |-> TRUE, v |-> v, next |-> next]
ParseFail == [ok |-> FALSE]
TokAt(s, i) == IF i <= Len(s) THEN s[i] ELSE "<eof>"

RECURSIVE ParseValue(_, _, _), ParseElems(_, _, _, _), ParseMembers(_, _, _, _)
\* elements of an array after "[" or ","
ParseElems(s, i, acc, depth) ==
    LET r == ParseValue(s, i, depth)
    IN IF ~r.ok THEN ParseFail
       ELSE CASE TokAt(s, r.next) = "," -> ParseElems(s, r.next + 1, Append(acc, r.v), depth)
              [] TokAt(s, r.next) = "]" -> ParseOk(JArr(Append(acc, r.v)), r.next + 1)
              [] OTHER -> ParseFail
\* members of an object after "{" or ","; a repeated key keeps the last value
ParseMembers(s, i, acc, depth) ==
    IF TokAt(s, i) \notin DOMAIN StrTok \/ TokAt(s, i + 1) # ":" THEN ParseFail
    ELSE LET r == ParseValue(s, i + 2, depth)
             key == StrTok[s[i]]
             map == (key :> r.v) @@ acc
         IN IF ~r.ok THEN ParseFail
            ELSE CASE TokAt(s, r.next) = "," -> ParseMembers(s, r.next + 1, map, depth)
                   [] TokAt(s, r.next) = "}" -> ParseOk(JObj(map), r.next + 1)
                   [] OTHER -> ParseFail
\* how many "[" tokens follow one another from position i on
OpenRun(s, i) == Cardinality({j \in i..Len(s) : \A m \in i..j : s[m] = "["})

\* depth is remaining_depth: entering an array or object takes one off, and
\* reaching zero is the error RecursionLimitExceeded; a run of `depth` or
\* more "[" tokens reaches zero inside the run
ParseValue(s, i, depth) ==
    LET t == TokAt(s, i)
    IN CASE t = "null" -> ParseOk(JNull, i + 1)
         [] t \in DOMAIN BoolTok -> ParseOk(JBool(BoolTok[t]), i + 1)
         [] t \in DOMAIN NumTok -> ParseOk(NumTok[t], i + 1)
         [] t \in DOMAIN StrTok -> ParseOk(JStr(StrTok[t]), i + 1)
         [] t = "[" -> IF OpenRun(s, i) >= depth THEN ParseFail
                       ELSE IF TokAt(s, i + 1) = "]" THEN ParseOk(JArr(<<>>), i + 2)
                       ELSE ParseElems(s, i + 1, <<>>, depth - 1)
         [] t = "{" -> IF depth - 1 = 0 THEN ParseFail
                       ELSE IF TokAt(s, i + 1) = "}" THEN ParseOk(JObj(<<>>), i + 2)
                       ELSE ParseMembers(s, i + 1, <<>>, depth - 1)
         [] OTHER -> ParseFail

Ok(v) == [ok |-> TRUE, v |-> v]
Err(e) == [ok |-> FALSE, e |-> e]

\* serde_json::from_slice::<Value>: one value, then end of input
from_slice(payload) ==
    LET r == ParseValue(payload, 1, RecursionLimit)
    IN IF r.ok /\ r.next = Len(payload) + 1 THEN Ok(r.v) ELSE Err("syntax")

RECURSIVE to_vec(_), EncodeElems(_, _), EncodeMembers(_, _)
EncodeElems(arr, i) ==
    IF i > Len(arr) THEN <<>>
    ELSE (IF i > 1 THEN <<",">> ELSE <<>>) \o to_vec(arr[i]) \o EncodeElems(arr, i + 1)
EncodeMembers(map, keys) ==
    IF keys = <<>> THEN <<>>
    ELSE <<"\"" \o Head(keys) \o "\"", ":">> \o to_vec(map[Head(keys)])
         \o (IF Tail(keys) # <<>> THEN <<",">> ELSE <<>>) \o EncodeMembers(map, Tail(keys))
\* serde_json::to_vec(&value).unwrap_or_default()
to_vec(value) ==
    CASE value.k = "null" -> <<"null">>
      [] value.k = "bool" -> <<IF value.v THEN "true" ELSE "false">>
      [] value.k = "num" ->
            IF "half" \in DOMAIN value THEN <<ToString(value.v) \o ".5">>
            ELSE <<ToString(value.v)>>
      [] value.k = "str" -> <<"\"" \o value.v \o "\"">>
      [] value.k = "arr" -> <<"[">> \o EncodeElems(value.v, 1) \o <<"]">>
      [] value.k = "arrs" -> [i \in 1..value.n |-> "["] \o [i \in 1..value.n |-> "]"]
      [] value.k = "obj" -> <<"{">> \o EncodeMembers(value.v, MapKeys(value.v)) \o <<"}">>

\* serde_json::from_slice(&bytes).unwrap_or(serde_json::Value::Null)
DecodeOrNull(payload) ==
    LET r == from_slice(payload) IN IF r.ok THEN r.v ELSE JNull

(***************************************************************************)
(* ProviderError and Diagnostic                                            *)
(***************************************************************************)
\* #[error("...: {0}")] of each ProviderError variant
ErrorPrefix ==
    [NotFound |-> "Resource not found: ", Validation |-> "Validation error: ",
     Sdk |-> "SDK error: ", Configuration |-> "Configuration error: ",
     UnknownResource |-> "Unknown resource type: ",
     Serialization |-> "Serialization error: ", Transport |-> "Transport error: ",
     AlreadyExists |-> "Resource already exists: ",
     PermissionDenied |-> "Permission denied: ",
     ResourceExhausted |-> "Resource exhausted: ",
     Unavailable |-> "Service unavailable: ", DeadlineExceeded |-> "Deadline exceeded: ",
     FailedPrecondition |-> "Failed precondition: ", Unimplemented |-> "Unimplemented: ",
     InvalidRequest |-> "Invalid request: "]
ErrorKinds == DOMAIN ErrorPrefix
ProviderError(kind, msg) == [kind |-> kind, msg |-> msg]

\* err.to_string(): the Display derived by thiserror
ErrorToString(err) == ErrorPrefix[err.kind] \o err.msg
\* ProviderError::message
ErrorMessage(err) ==
    CASE err.kind = "Serialization" -> "serialization error (see Debug output)"
      [] err.kind = "Transport" -> "transport error (see Debug output)"
      [] OTHER -> err.msg

Diagnostic(severity, summary, detail, attribute) ==
    [severity |-> severity, summary |-> summary, detail |-> detail, attribute |-> attribute]

\* Option<String>::unwrap_or_default
UnwrapOrDefault(opt) == IF opt.k = "some" THEN opt.v ELSE ""

RECURSIVE diagnostics_to_proto(_)
diagnostics_to_proto(diagnostics) ==
    IF diagnostics = <<>> THEN <<>>
    ELSE LET d == Head(diagnostics)
         IN <<[severity |-> d.severity, summary |-> d.summary,
               detail |-> UnwrapOrDefault(d.detail),
               attribute |-> UnwrapOrDefault(d.attribute)]>>
            \o diagnostics_to_proto(Tail(diagnostics))

\* faulty variant: the summary is the bare message, without the variant's prefix
error_to_diagnostics_message(err) ==
    <<[severity |-> "Error", summary |-> ErrorMessage(err), detail |-> "", attribute |-> ""]>>

error_to_diagnostics(err) ==
    <<[severity |-> "Error", summary |-> ErrorToString(err), detail |-> "", attribute |-> ""]>>

\* From<AttributeChange> for generated::AttributeChange
change_to_proto(change) ==
    [path |-> change.path,
     before |-> IF change.before.k = "some" THEN to_vec(change.before.v) ELSE <<>>,
     after |-> IF change.after.k = "some" THEN to_vec(change.after.v) ELSE <<>>]

RECURSIVE changes_to_proto(_)
changes_to_proto(changes) ==
    IF changes = <<>> THEN <<>>
    ELSE <<change_to_proto(Head(changes))>> \o changes_to_proto(Tail(changes))

RECURSIVE imported_to_proto(_)
imported_to_proto(imported) ==
    IF imported = <<>> THEN <<>>
    ELSE <<[resource_type |-> Head(imported).resource_type,
            state |-> to_vec(Head(imported).state)]>> \o imported_to_proto(Tail(imported))

(***************************************************************************)
(* The gRPC handlers of ProviderGrpcService.  A handler takes the request  *)
(* and the outcome of the provider method it calls, and gives the provider *)
(* call it made (method and decoded arguments) and the RPC result.         *)
(***************************************************************************)
RpcOk(msg) == [status |-> "ok", msg |-> msg]
RpcStatus(code) == [status |-> code]
Call(method, args) == Some([method |-> method, args |-> args])
Handled(call, response) == [call |-> call, resp |-> response]

validate_provider_config(req, outcome) ==
    LET config == DecodeOrNull(req.config)
    IN Handled(Call("validate_provider_config", [config |-> config]),
               IF outcome.ok THEN RpcOk([diagnostics |-> diagnostics_to_proto(outcome.v)])
               ELSE RpcOk([diagnostics |-> error_to_diagnostics(outcome.e)]))

configure(req, outcome) ==
    LET config == DecodeOrNull(req.config)
    IN Handled(Call("configure", [config |-> config]),
               IF outcome.ok THEN RpcOk([diagnostics |-> diagnostics_to_proto(outcome.v)])
               ELSE RpcOk([diagnostics |-> error_to_diagnostics(outcome.e)]))

validate_resource_config(req, outcome) ==
    LET config == DecodeOrNull(req.config)
    IN Handled(Call("validate_resource_config",
                    [resource_type |-> req.resource_type, config |-> config]),
               IF outcome.ok THEN RpcOk([diagnostics |-> diagnostics_to_proto(outcome.v)])
               ELSE RpcOk([diagnostics |-> error_to_diagnostics(outcome.e)]))

upgrade_resource_state(req, outcome) ==
    LET state == DecodeOrNull(req.raw_state)
    IN Handled(Call("upgrade_resource_state",
                    [resource_type |-> req.resource_type, version |-> req.version,
                     raw_state |-> state]),
               IF outcome.ok
               THEN RpcOk([upgraded_state |-> to_vec(outcome.v), diagnostics |-> <<>>])
               ELSE RpcOk([upgraded_state |-> <<>>,
                           diagnostics |-> error_to_diagnostics(outcome.e)]))

\* the prior state handed to provider.plan
PlanPriorState(req) ==
    IF req.prior_state = <<>> THEN None
    ELSE LET r == from_slice(req.prior_state) IN IF r.ok THEN Some(r.v) ELSE None

plan(req, outcome) ==
    LET is_create == (req.prior_state = <<>>)
        prior_state == PlanPriorState(req)
        proposed_state == DecodeOrNull(req.proposed_state)
        config == DecodeOrNull(req.config)
    IN Handled(Call("plan", [resource_type |-> req.resource_type, is_create |-> is_create,
                             prior_state |-> prior_state,
                             proposed_state |-> proposed_state, config |-> config]),
               IF outcome.ok
               THEN RpcOk([planned_state |-> to_vec(outcome.v.planned_state),
                           changes |-> changes_to_proto(outcome.v.changes),
                           requires_replace |-> outcome.v.requires_replace,
                           diagnostics |-> <<>>])
               ELSE RpcOk([planned_state |-> <<>>, changes |-> <<>>,
                           requires_replace |-> FALSE,
                           diagnostics |-> error_to_diagnostics(outcome.e)]))

create(req, outcome) ==
    LET planned_state == DecodeOrNull(req.planned_state)
    IN Handled(Call("create", [resource_type |-> req.resource_type,
                               planned_state |-> planned_state]),
               IF outcome.ok THEN RpcOk([state |-> to_vec(outcome.v), diagnostics |-> <<>>])
               ELSE RpcOk([state |-> <<>>, diagnostics |-> error_to_diagnostics(outcome.e)]))

read(req, outcome) ==
    LET current_state == DecodeOrNull(req.current_state)
    IN Handled(Call("read", [resource_type |-> req.resource_type,
                             current_state |-> current_state]),
               IF outcome.ok THEN RpcOk([state |-> to_vec(outcome.v), diagnostics |-> <<>>])
               ELSE RpcOk([state |-> <<>>, diagnostics |-> error_to_diagnostics(outcome.e)]))

\* faulty variant: a payload that does not parse is answered with an RPC error status
update_strict(req, outcome) ==
    IF ~from_slice(req.prior_state).ok \/ ~from_slice(req.planned_state).ok
    THEN Handled(None, RpcStatus("invalid_argument"))
    ELSE Handled(Call("update", [resource_type |-> req.resource_type,
                                 prior_state |-> from_slice(req.prior_state).v,
                                 planned_state |-> from_slice(req.planned_state).v]),
                 IF outcome.ok THEN RpcOk([state |-> to_vec(outcome.v), diagnostics |-> <<>>])
                 ELSE RpcOk([state |-> <<>>,
                             diagnostics |-> error_to_diagnostics(outcome.e)]))

update(req, outcome) ==
    LET prior_state == DecodeOrNull(req.prior_state)
        planned_state == DecodeOrNull(req.planned_state)
    IN Handled(Call("update", [resource_type |-> req.resource_type,
                               prior_state |-> prior_state,
                               planned_state |-> planned_state]),
               IF outcome.ok THEN RpcOk([state |-> to_vec(outcome.v), diagnostics |-> <<>>])
               ELSE RpcOk([state |-> <<>>, diagnostics |-> error_to_diagnostics(outcome.e)]))

delete(req, outcome) ==
    LET current_state == DecodeOrNull(req.current_state)
    IN Handled(Call("delete", [resource_type |-> req.resource_type,
                               current_state |-> current_state]),
               IF outcome.ok THEN RpcOk([diagnostics |-> <<>>])
               ELSE RpcOk([diagnostics |-> error_to_diagnostics(outcome.e)]))

import_resource_state(req, outcome) ==
    Handled(Call("import_resource", [resource_type |-> req.resource_type, id |-> req.id]),
            IF outcome.ok
            THEN RpcOk([imported |-> imported_to_proto(outcome.v), diagnostics |-> <<>>])
            ELSE RpcOk([imported |-> <<>>, diagnostics |-> error_to_diagnostics(outcome.e)]))

validate_data_source_config(req, outcome) ==
    LET config == DecodeOrNull(req.config)
    IN Handled(Call("validate_data_source_config",
                    [data_source_type |-> req.data_source_type, config |-> config]),
               IF outcome.ok THEN RpcOk([diagnostics |-> diagnostics_to_proto(outcome.v)])
               ELSE RpcOk([diagnostics |-> error_to_diagnostics(outcome.e)]))

read_data_source(req, outcome) ==
    LET config == DecodeOrNull(req.config)
    IN Handled(Call("read_data_source",
                    [data_source_type |-> req.data_source_type, config |-> config]),
               IF outcome.ok THEN RpcOk([state |-> to_vec(outcome.v), diagnostics |-> <<>>])
               ELSE RpcOk([state |-> <<>>, diagnostics |-> error_to_diagnostics(outcome.e)]))

(***************************************************************************)
(* DispatchSpec: one request at a time goes through its handler            *)
(***************************************************************************)
PayloadTokens == {"null", "1", "[", "]"}
PayloadsUpTo(n) == UNION {[1..m -> PayloadTokens] : m \in 0..n}
Payloads == PayloadsUpTo(MaxPayloadLen)
ConfigPayloads == PayloadsUpTo(MaxConfigLen)

ResourceTypes == {"example_resource"}
DataSourceTypes == {"example_data"}

\* what provider methods may return
Errors == {ProviderError(kind, "boom") : kind \in ErrorKinds} \cup {ProviderError("Sdk", "")}
Failures == {Err(e) : e \in Errors}
ResultStates == {JNull, JObj("a" :> JNum(1))}
StateOutcomes == {Ok(x) : x \in ResultStates} \cup Failures
DiagnosticLists ==
    LET w == Diagnostic("Warning", "deprecated", None, None)
        e == Diagnostic("Error", "invalid", Some("must be set"), Some("name"))
    IN {<<>>, <<w>>, <<e>>, <<w, e>>}
DiagnosticOutcomes == {Ok(ds) : ds \in DiagnosticLists} \cup Failures
PlanOutcomes(args) ==
    {Ok(from_diff(args.prior_state, args.proposed_state, ord)) : ord \in KeyOrders}
    \cup {Ok(PlanResult(args.proposed_state, <<>>, TRUE))} \cup Failures
UnitOutcomes == {Ok(<<>>)} \cup Failures
ImportOutcomes ==
    {Ok(<<>>), Ok(<<[resource_type |-> "example_resource", state |-> JObj("a" :> JNum(1))]>>)}
    \cup Failures

DispatchInit == RpcIdle /\ ServeIdle /\ DiffIdle /\ ValidateIdle /\ TypesIdle /\ TesterIdle

\* Each action is one handler run: the request arrives, the provider method
\* answers with outcome, and the handler's call and result are recorded.
ValidateProviderConfig ==
    /\ rpc_req = None
    /\ \E config \in Payloads, outcome \in DiagnosticOutcomes :
           LET req == [rpc |-> "ValidateProviderConfig", config |-> config]
           IN LET h == validate_provider_config(req, outcome)
               IN /\ rpc_req' = Some(req)
                  /\ rpc_outcome' = Some(outcome)
                  /\ rpc_call' = h.call
                  /\ rpc_resp' = Some(h.resp)
    /\ UNCHANGED <<serveVars, diffVars, validateVars, typesVars, testerVars>>

Configure ==
    /\ rpc_req = None
    /\ \E config \in Payloads, outcome \in DiagnosticOutcomes :
           LET req == [rpc |-> "Configure", config |-> config]
           IN LET h == configure(req, outcome)
               IN /\ rpc_req' = Some(req)
                  /\ rpc_outcome' = Some(outcome)
                  /\ rpc_call' = h.call
                  /\ rpc_resp' = Some(h.resp)
    /\ UNCHANGED <<serveVars, diffVars, validateVars, typesVars, testerVars>>

ValidateResourceConfig ==
    /\ rpc_req = None
    /\ \E rt \in ResourceTypes, config \in Payloads, outcome \in DiagnosticOutcomes :
           LET req == [rpc |-> "ValidateResourceConfig", resource_type |-> rt, config |-> config]
           IN LET h == validate_resource_config(req, outcome)
               IN /\ rpc_req' = Some(req)
                  /\ rpc_outcome' = Some(outcome)
                  /\ rpc_call' = h.call
                  /\ rpc_resp' = Some(h.resp)
    /\ UNCHANGED <<serveVars, diffVars, validateVars, typesVars, testerVars>>

UpgradeResourceState ==
    /\ rpc_req = None
    /\ \E rt \in ResourceTypes, raw_state \in Payloads, outcome \in StateOutcomes :
           LET req == [rpc |-> "UpgradeResourceState", resource_type |-> rt, version |-> 0,
                       raw_state |-> raw_state]
           IN LET h == upgrade_resource_state(req, outcome)
               IN /\ rpc_req' = Some(req)
                  /\ rpc_outcome' = Some(outcome)
                  /\ rpc_call' = h.call
                  /\ rpc_resp' = Some(h.resp)
    /\ UNCHANGED <<serveVars, diffVars, validateVars, typesVars, testerVars>>

Plan ==
    /\ rpc_req = None
    /\ \E rt \in ResourceTypes, prior_state \in Payloads, proposed_state \in Payloads,
          config \in ConfigPayloads :
           LET req == [rpc |-> "Plan", resource_type |-> rt, prior_state |-> prior_state,
                       proposed_state |-> proposed_state, config |-> config]
               args == [prior_state |-> PlanPriorState(req),
                        proposed_state |-> DecodeOrNull(proposed_state)]
           IN \E outcome \in PlanOutcomes(args) :
                  LET h == plan(req, outcome)
                  IN /\ rpc_req' = Some(req)
                     /\ rpc_outcome' = Some(outcome)
                     /\ rpc_call' = h.call
                     /\ rpc_resp' = Some(h.resp)
    /\ UNCHANGED <<serveVars, diffVars, validateVars, typesVars, testerVars>>

Create ==
    /\ rpc_req = None
    /\ \E rt \in ResourceTypes, planned_state \in Payloads, outcome \in StateOutcomes :
           LET req == [rpc |-> "Create", resource_type |-> rt, planned_state |-> planned_state]
           IN LET h == create(req, outcome)
               IN /\ rpc_req' = Some(req)
                  /\ rpc_outcome' = Some(outcome)
                  /\ rpc_call' = h.call
                  /\ rpc_resp' = Some(h.resp)
    /\ UNCHANGED <<serveVars, diffVars, validateVars, typesVars, testerVars>>

Read ==
    /\ rpc_req = None
    /\ \E rt \in ResourceTypes, current_state \in Payloads, outcome \in StateOutcomes :
           LET req == [rpc |-> "Read", resource_type |-> rt, current_state |-> current_state]
           IN LET h == read(req, outcome)
               IN /\ rpc_req' = Some(req)
                  /\ rpc_outcome' = Some(outcome)
                  /\ rpc_call' = h.call
                  /\ rpc_resp' = Some(h.resp)
    /\ UNCHANGED <<serveVars, diffVars, validateVars, typesVars, testerVars>>

Update ==
    /\ rpc_req = None
    /\ \E rt \in ResourceTypes, prior_state \in Payloads, planned_state \in Payloads,
          outcome \in StateOutcomes :
           LET req == [rpc |-> "Update", resource_type |-> rt, prior_state |-> prior_state,
                       planned_state |-> planned_state]
           IN LET h == update(req, outcome)
               IN /\ rpc_req' = Some(req)
                  /\ rpc_outcome' = Some(outcome)
                  /\ rpc_call' = h.call
                  /\ rpc_resp' = Some(h.resp)
    /\ UNCHANGED <<serveVars, diffVars, validateVars, typesVars, testerVars>>

Delete ==
    /\ rpc_req = None
    /\ \E rt \in ResourceTypes, current_state \in Payloads, outcome \in UnitOutcomes :
           LET req == [rpc |-> "Delete", resource_type |-> rt, current_state |-> current_state]
           IN LET h == delete(req, outcome)
               IN /\ rpc_req' = Some(req)
                  /\ rpc_outcome' = Some(outcome)
                  /\ rpc_call' = h.call
                  /\ rpc_resp' = Some(h.resp)
    /\ UNCHANGED <<serveVars, diffVars, validateVars, typesVars, testerVars>>

ImportResourceState ==
    /\ rpc_req = None
    /\ \E rt \in ResourceTypes, outcome \in ImportOutcomes :
           LET req == [rpc |-> "ImportResourceState", resource_type |-> rt, id |-> "id-1"]
           IN LET h == import_resource_state(req, outcome)
               IN /\ rpc_req' = Some(req)
                  /\ rpc_outcome' = Some(outcome)
                  /\ rpc_call' = h.call
                  /\ rpc_resp' = Some(h.resp)
    /\ UNCHANGED <<serveVars, diffVars, validateVars, typesVars, testerVars>>

ValidateDataSourceConfig ==
    /\ rpc_req = None
    /\ \E dt \in DataSourceTypes, config \in Payloads, outcome \in DiagnosticOutcomes :
           LET req == [rpc |-> "ValidateDataSourceConfig", data_source_type |-> dt,
                       config |-> config]
           IN LET h == validate_data_source_config(req, outcome)
               IN /\ rpc_req' = Some(req)
                  /\ rpc_outcome' = Some(outcome)
                  /\ rpc_call' = h.call
                  /\ rpc_resp' = Some(h.resp)
    /\ UNCHANGED <<serveVars, diffVars, validateVars, typesVars, testerVars>>

ReadDataSource ==
    /\ rpc_req = None
    /\ \E dt \in DataSourceTypes, config \in Payloads, outcome \in StateOutcomes :
           LET req == [rpc |-> "ReadDataSource", data_source_type |-> dt, config |-> config]
           IN LET h == read_data_source(req, outcome)
               IN /\ rpc_req' = Some(req)
                  /\ rpc_outcome' = Some(outcome)
                  /\ rpc_call' = h.call
                  /\ rpc_resp' = Some(h.resp)
    /\ UNCHANGED <<serveVars, diffVars, validateVars, typesVars, testerVars>>

\* the response has gone out; the next request can be handled
Respond ==
    /\ rpc_req # None
    /\ rpc_req' = None /\ rpc_outcome' = None /\ rpc_call' = None /\ rpc_resp' = None
    /\ UNCHANGED <<serveVars, diffVars, validateVars, typesVars, testerVars>>

DispatchNext ==
    \/ ValidateProviderConfig \/ Configure \/ ValidateResourceConfig
    \/ UpgradeResourceState \/ Plan \/ Create \/ Read \/ Update \/ Delete
    \/ ImportResourceState \/ ValidateDataSourceConfig \/ ReadDataSource
    \/ Respond

DispatchSpec == DispatchInit /\ [][DispatchNext]_vars

(***************************************************************************)
(* Properties of the dispatch adapter                                      *)
(***************************************************************************)
ValidateRpcs == {"ValidateProviderConfig", "ValidateResourceConfig", "ValidateDataSourceConfig"}
ResultFields == {"state", "planned_state", "changes", "imported"}

\* the response to a failed provider method: one Error diagnostic whose summary
\* is the error's display text, and no result
IsFailureResponse(response, err) ==
    /\ response.status = "ok"
    /\ response.msg.diagnostics =
           <<[severity |-> "Error", summary |-> ErrorPrefix[err.kind] \o err.msg,
              detail |-> "", attribute |-> ""]>>
    /\ \A f \in DOMAIN response.msg \cap ResultFields : response.msg[f] = <<>>

\* C6 as stated: every handler answers with RPC-level success; a failed
\* provider method gives exactly one Error diagnostic (summary = display text,
\* empty detail and attribute) and empty result fields; and every operation
\* other than the three Validate* ones has no diagnostics on success.
C6_ErrorsBecomeDiagnostics ==
    rpc_resp # None =>
        /\ rpc_resp.v.status = "ok"
        /\ ~rpc_outcome.v.ok => IsFailureResponse(rpc_resp.v, rpc_outcome.v.e)
        /\ (rpc_outcome.v.ok /\ rpc_req.v.rpc \notin ValidateRpcs)
               => rpc_resp.v.msg.diagnostics = <<>>

\* C6 amended: as C6, with the empty diagnostics on success claimed only for
\* the operations other than the three Validate* ones and Configure, whose
\* successful provider method returns the diagnostics that are passed on.
C6_ErrorsBecomeDiagnosticsAmended ==
    rpc_resp # None =>
        /\ rpc_resp.v.status = "ok"
        /\ ~rpc_outcome.v.ok => IsFailureResponse(rpc_resp.v, rpc_outcome.v.e)
        /\ (rpc_outcome.v.ok /\ rpc_req.v.rpc \notin ValidateRpcs \cup {"Configure"})
               => rpc_resp.v.msg.diagnostics = <<>>
        /\ (rpc_outcome.v.ok /\ rpc_req.v.rpc \in ValidateRpcs \cup {"Configure"})
               => Len(rpc_resp.v.msg.diagnostics) = Len(rpc_outcome.v.v)
\* a Plan whose provider method failed with NotFound has been answered
C6_Witness ==
    /\ rpc_resp # None /\ rpc_req.v.rpc = "Plan"
    /\ rpc_outcome.v = Err(ProviderError("NotFound", "boom"))
    /\ rpc_resp.v = RpcOk([planned_state |-> <<>>, changes |-> <<>>,
                           requires_replace |-> FALSE,
                           diagnostics |-> <<[severity |-> "Error",
                                              summary |-> "Resource not found: boom",
                                              detail |-> "", attribute |-> ""]>>])

\* the payload fields that are decoded with unwrap_or(Value::Null)
LenientFields(rpc) ==
    CASE rpc \in {"ValidateProviderConfig", "Configure", "ValidateResourceConfig",
                  "ValidateDataSourceConfig", "ReadDataSource"} -> {"config"}
      [] rpc = "UpgradeResourceState" -> {"raw_state"}
      [] rpc = "Plan" -> {"proposed_state", "config"}
      [] rpc = "Create" -> {"planned_state"}
      [] rpc \in {"Read", "Delete"} -> {"current_state"}
      [] rpc = "Update" -> {"prior_state", "planned_state"}
      [] OTHER -> {}

\* C7: a payload field that is empty or not valid JSON never fails the call:
\* the provider method is invoked with null for it.
C7_LenientDecoding ==
    rpc_resp # None =>
        \A f \in LenientFields(rpc_req.v.rpc) :
            (rpc_req.v[f] = <<>> \/ ~from_slice(rpc_req.v[f]).ok) =>
                /\ rpc_resp.v.status = "ok"
                /\ rpc_call # None
                /\ rpc_call.v.args[f] = JNull
\* an Update with a malformed prior_state and an empty planned_state succeeded
C7_Witness ==
    /\ rpc_resp # None /\ rpc_req.v.rpc = "Update"
    /\ rpc_req.v.prior_state = <<"[">> /\ rpc_req.v.planned_state = <<>>
    /\ rpc_call # None /\ rpc_call.v.method = "update"
    /\ rpc_call.v.args.prior_state = JNull /\ rpc_call.v.args.planned_state = JNull
    /\ rpc_outcome.v.ok /\ rpc_resp.v.msg.state # <<>>

\* C8: Plan hands None to the provider's plan method exactly when the
\* request's prior_state payload is empty; every non-empty payload arrives as
\* Some value.
C8_PlanPriorNoneIffEmpty ==
    (rpc_resp # None /\ rpc_req.v.rpc = "Plan") =>
        (rpc_call.v.args.prior_state = None <=> rpc_req.v.prior_state = <<>>)

(***************************************************************************)
(* Schema types (schema.rs)                                                *)
(***************************************************************************)
\* AttributeType
TString == [t |-> "String"]
TInt64 == [t |-> "Int64"]
TFloat64 == [t |-> "Float64"]
TBool == [t |-> "Bool"]
TList(element_type) == [t |-> "List", elem |-> element_type]
TSet(element_type) == [t |-> "Set", elem |-> element_type]
TMap(value_type) == [t |-> "Map", elem |-> value_type]
TObject(attributes) == [t |-> "Object", attrs |-> attributes]
TDynamic == [t |-> "Dynamic"]

\* AttributeFlags; `sensitive` plays no part in validation
AttributeFlags(required, optional, computed) ==
    [required |-> required, optional |-> optional, computed |-> computed]
\* Attribute::new; description, force_new and default play no part in validation
Attribute(attr_type, flags) == [attr_type |-> attr_type, flags |-> flags]
\* Block: attributes and blocks are HashMaps from names
Block(attributes, blocks) == [attributes |-> attributes, blocks |-> blocks]
\* NestedBlock
NestedBlock(block, nesting_mode, min_items, max_items) ==
    [block |-> block, nesting_mode |-> nesting_mode,
     min_items |-> min_items, max_items |-> max_items]
\* Schema::v0().with_attribute(..).with_block(..)
Schema(block) == [version |-> 0, block |-> block]

(***************************************************************************)
(* Validation engine (validation.rs)                                       *)
(***************************************************************************)
\* Diagnostic::error
error(summary) == Diagnostic("Error", summary, None, None)
\* Diagnostic::with_detail
with_detail(diagnostic, detail) == [diagnostic EXCEPT !.detail = Some(detail)]
\* Diagnostic::with_attribute
with_attribute(diagnostic, attribute) == [diagnostic EXCEPT !.attribute = Some(attribute)]
with_attribute_if_not_empty(diagnostic, path) ==
    IF path = "" THEN diagnostic ELSE with_attribute(diagnostic, path)

join_path(base, name) == IF base = "" THEN name ELSE base \o "." \o name

value_type_name(value) ==
    CASE value.k = "null" -> "null"
      [] value.k = "bool" -> "bool"
      [] value.k = "num" -> "number"
      [] value.k = "str" -> "string"
      [] value.k = "arr" -> "array"
      [] value.k = "obj" -> "object"

\* a number that is an integer, or a float without fractional part, in i64 range
is_int64(value) == value.k = "num" /\ "half" \notin DOMAIN value

type_error(path, expected, got) ==
    Diagnostic("Error", "Invalid type for attribute '" \o path \o "'",
               Some("Expected " \o expected \o ", got " \o value_type_name(got)),
               Some(path))

\* the names of a HashMap in the order `ord` iterates them
NamesIn(map, ord) == SelectSeq(ord, LAMBDA name : name \in DOMAIN map)

RECURSIVE validate_block(_, _, _, _), BlockAttributes(_, _, _, _, _),
          BlockBlocks(_, _, _, _, _), validate_attribute(_, _, _, _),
          validate_attribute_type(_, _, _, _), ListElems(_, _, _, _, _),
          MapEntries(_, _, _, _, _), validate_object_type(_, _, _, _),
          ObjectAttrs(_, _, _, _, _), validate_nested_block(_, _, _, _),
          validate_single_block(_, _, _, _), validate_list_block(_, _, _, _),
          ListBlockItems(_, _, _, _, _), validate_map_block(_, _, _, _),
          MapBlockItems(_, _, _, _, _)

\* for (i, elem) in arr.iter().enumerate(): i is the 0-based index of the next element
ListElems(element_type, arr, path, i, ord) ==
    IF i >= Len(arr) THEN <<>>
    ELSE validate_attribute_type(element_type, arr[i + 1], path \o "." \o ToString(i), ord)
         \o ListElems(element_type, arr, path, i + 1, ord)

\* for (key, val) in obj
MapEntries(value_type, obj, path, keys, ord) ==
    IF keys = <<>> THEN <<>>
    ELSE validate_attribute_type(value_type, obj[Head(keys)], path \o "." \o Head(keys), ord)
         \o MapEntries(value_type, obj, path, Tail(keys), ord)

\* for (name, attr_type) in attrs: only the fields the object holds are checked
ObjectAttrs(attrs, obj, path, names, ord) ==
    IF names = <<>> THEN <<>>
    ELSE LET name == Head(names)
         IN (IF name \in DOMAIN obj
             THEN validate_attribute_type(attrs[name], obj[name], join_path(path, name), ord)
             ELSE <<>>)
            \o ObjectAttrs(attrs, obj, path, Tail(names), ord)

\* faulty variant: a key the object type does not declare is an error
validate_object_type_strict(attrs, obj, path, ord) ==
    ObjectAttrs(attrs, obj, path, NamesIn(attrs, ord), ord)
    \o (IF DOMAIN obj \subseteq DOMAIN attrs THEN <<>>
        ELSE <<with_attribute_if_not_empty(error("Unknown attribute"), path)>>)

validate_object_type(attrs, obj, path, ord) ==
    ObjectAttrs(attrs, obj, path, NamesIn(attrs, ord), ord)

\* faulty variant: Dynamic is checked like String
validate_attribute_type_dynamic_string(attr_type, value, path, ord) ==
    CASE attr_type.t = "String" ->
            IF value.k # "str" THEN <<type_error(path, "string", value)>> ELSE <<>>
      [] attr_type.t = "Int64" ->
            IF ~is_int64(value) THEN <<type_error(path, "int64", value)>> ELSE <<>>
      [] attr_type.t = "Float64" ->
            IF value.k # "num" THEN <<type_error(path, "float64", value)>> ELSE <<>>
      [] attr_type.t = "Bool" ->
            IF value.k # "bool" THEN <<type_error(path, "bool", value)>> ELSE <<>>
      [] attr_type.t = "List" ->
            IF value.k = "arr" THEN ListElems(attr_type.elem, value.v, path, 0, ord)
            ELSE <<type_error(path, "list", value)>>
      [] attr_type.t = "Set" ->
            IF value.k = "arr" THEN ListElems(attr_type.elem, value.v, path, 0, ord)
            ELSE <<type_error(path, "set", value)>>
      [] attr_type.t = "Map" ->
            IF value.k = "obj"
            THEN MapEntries(attr_type.elem, value.v, path, MapKeys(value.v), ord)
            ELSE <<type_error(path, "map", value)>>
      [] attr_type.t = "Object" ->
            IF value.k = "obj" THEN validate_object_type(attr_type.attrs, value.v, path, ord)
            ELSE <<type_error(path, "object", value)>>
      [] attr_type.t = "Dynamic" ->
            IF value.k # "str" THEN <<type_error(path, "string", value)>> ELSE <<>>
validate_attribute_type(attr_type, value, path, ord) ==
    CASE attr_type.t = "String" ->
            IF value.k # "str" THEN <<type_error(path, "string", value)>> ELSE <<>>
      [] attr_type.t = "Int64" ->
            IF ~is_int64(value) THEN <<type_error(path, "int64", value)>> ELSE <<>>
      [] attr_type.t = "Float64" ->
            IF value.k # "num" THEN <<type_error(path, "float64", value)>> ELSE <<>>
      [] attr_type.t = "Bool" ->
            IF value.k # "bool" THEN <<type_error(path, "bool", value)>> ELSE <<>>
      [] attr_type.t = "List" ->
            IF value.k = "arr" THEN ListElems(attr_type.elem, value.v, path, 0, ord)
            ELSE <<type_error(path, "list", value)>>
      [] attr_type.t = "Set" ->
            IF value.k = "arr" THEN ListElems(attr_type.elem, value.v, path, 0, ord)
            ELSE <<type_error(path, "set", value)>>
      [] attr_type.t = "Map" ->
            IF value.k = "obj"
            THEN MapEntries(attr_type.elem, value.v, path, MapKeys(value.v), ord)
            ELSE <<type_error(path, "map", value)>>
      [] attr_type.t = "Object" ->
            IF value.k = "obj" THEN validate_object_type(attr_type.attrs, value.v, path, ord)
            ELSE <<type_error(path, "object", value)>>
      [] attr_type.t = "Dynamic" -> <<>>

\* faulty variant: computed-only attributes are checked like the others
validate_attribute_no_skip(attr, value, path, ord) ==
    IF value = None \/ value = Some(JNull)
    THEN IF attr.flags.required
         THEN <<with_attribute(
                   with_detail(error("Missing required attribute '" \o path \o "'"),
                               "This attribute is required and must be provided"),
                   path)>>
         ELSE <<>>
    ELSE validate_attribute_type(attr.attr_type, value.v, path, ord)
\* value is obj.get(name): None or Some(v)
validate_attribute(attr, value, path, ord) ==
    IF attr.flags.computed /\ ~attr.flags.optional /\ ~attr.flags.required THEN <<>>
    ELSE IF value = None \/ value = Some(JNull)
         THEN IF attr.flags.required
              THEN <<with_attribute(
                        with_detail(error("Missing required attribute '" \o path \o "'"),
                                    "This attribute is required and must be provided"),
                        path)>>
              ELSE <<>>
         ELSE validate_attribute_type(attr.attr_type, value.v, path, ord)

\* faulty variant: the loop stops at the first attribute that reported something
BlockAttributes_first_only(block, obj, path, names, ord) ==
    IF names = <<>> THEN <<>>
    ELSE LET name == Head(names)
             found == validate_attribute(block.attributes[name], MapGet(obj, name),
                                         join_path(path, name), ord)
         IN IF found # <<>> THEN found
            ELSE BlockAttributes(block, obj, path, Tail(names), ord)
\* for (name, attr) in &block.attributes
BlockAttributes(block, obj, path, names, ord) ==
    IF names = <<>> THEN <<>>
    ELSE LET name == Head(names)
         IN validate_attribute(block.attributes[name], MapGet(obj, name),
                               join_path(path, name), ord)
            \o BlockAttributes(block, obj, path, Tail(names), ord)

\* for (name, nested_block) in &block.blocks
BlockBlocks(block, obj, path, names, ord) ==
    IF names = <<>> THEN <<>>
    ELSE LET name == Head(names)
         IN validate_nested_block(block.blocks[name], MapGet(obj, name),
                                  join_path(path, name), ord)
            \o BlockBlocks(block, obj, path, Tail(names), ord)

\* faulty variant: a null value is validated as an object without members
validate_block_null_as_empty(block, value, path, ord) ==
    CASE value.k = "obj" ->
            BlockAttributes(block, value.v, path, NamesIn(block.attributes, ord), ord)
            \o BlockBlocks(block, value.v, path, NamesIn(block.blocks, ord), ord)
      [] value.k = "null" ->
            BlockAttributes(block, <<>>, path, NamesIn(block.attributes, ord), ord)
            \o BlockBlocks(block, <<>>, path, NamesIn(block.blocks, ord), ord)
      [] OTHER ->
            <<with_attribute_if_not_empty(
                  with_detail(error("Expected object"), "Got " \o value_type_name(value)),
                  path)>>

validate_block(block, value, path, ord) ==
    CASE value.k = "obj" ->
            BlockAttributes(block, value.v, path, NamesIn(block.attributes, ord), ord)
            \o BlockBlocks(block, value.v, path, NamesIn(block.blocks, ord), ord)
      [] value.k = "null" -> <<>>
      [] OTHER ->
            <<with_attribute_if_not_empty(
                  with_detail(error("Expected object"), "Got " \o value_type_name(value)),
                  path)>>

validate_single_block(nested, value, path, ord) ==
    IF value = None \/ value = Some(JNull)
    THEN IF nested.min_items > 0
         THEN <<with_attribute(
                   with_detail(error("Missing required block '" \o path \o "'"),
                               "At least one block is required"),
                   path)>>
         ELSE <<>>
    ELSE validate_block(nested.block, value.v, path, ord)

\* for (i, item) in arr.iter().enumerate()
ListBlockItems(nested, arr, path, i, ord) ==
    IF i >= Len(arr) THEN <<>>
    ELSE validate_block(nested.block, arr[i + 1], path \o "." \o ToString(i), ord)
         \o ListBlockItems(nested, arr, path, i + 1, ord)

\* faulty variant: max_items = 0 is enforced as a limit of zero
validate_list_block_zero_max(nested, value, path, ord) ==
    IF value = None \/ value = Some(JNull)
    THEN IF nested.min_items > 0
         THEN <<with_attribute(
                   error("Block '" \o path \o "' requires at least "
                         \o ToString(nested.min_items) \o " item(s)"),
                   path)>>
         ELSE <<>>
    ELSE IF value.v.k = "arr"
    THEN LET len == Len(value.v.v)
         IN (IF len < nested.min_items
             THEN <<with_attribute(
                       error("Block '" \o path \o "' requires at least "
                             \o ToString(nested.min_items) \o " item(s), got "
                             \o ToString(len)),
                       path)>>
             ELSE <<>>)
            \o (IF len > nested.max_items
                THEN <<with_attribute(
                          error("Block '" \o path \o "' allows at most "
                                \o ToString(nested.max_items) \o " item(s), got "
                                \o ToString(len)),
                          path)>>
                ELSE <<>>)
            \o ListBlockItems(nested, value.v.v, path, 0, ord)
    ELSE <<with_attribute(
              with_detail(error("Expected list for block '" \o path \o "'"),
                          "Got " \o value_type_name(value.v)),
              path)>>
validate_list_block(nested, value, path, ord) ==
    IF value = None \/ value = Some(JNull)
    THEN IF nested.min_items > 0
         THEN <<with_attribute(
                   error("Block '" \o path \o "' requires at least "
                         \o ToString(nested.min_items) \o " item(s)"),
                   path)>>
         ELSE <<>>
    ELSE IF value.v.k = "arr"
    THEN LET len == Len(value.v.v)
         IN (IF len < nested.min_items
             THEN <<with_attribute(
                       error("Block '" \o path \o "' requires at least "
                             \o ToString(nested.min_items) \o " item(s), got "
                             \o ToString(len)),
                       path)>>
             ELSE <<>>)
            \o (IF nested.max_items > 0 /\ len > nested.max_items
                THEN <<with_attribute(
                          error("Block '" \o path \o "' allows at most "
                                \o ToString(nested.max_items) \o " item(s), got "
                                \o ToString(len)),
                          path)>>
                ELSE <<>>)
            \o ListBlockItems(nested, value.v.v, path, 0, ord)
    ELSE <<with_attribute(
              with_detail(error("Expected list for block '" \o path \o "'"),
                          "Got " \o value_type_name(value.v)),
              path)>>

\* for (key, item) in obj
MapBlockItems(nested, obj, path, keys, ord) ==
    IF keys = <<>> THEN <<>>
    ELSE validate_block(nested.block, obj[Head(keys)], path \o "." \o Head(keys), ord)
         \o MapBlockItems(nested, obj, path, Tail(keys), ord)

validate_map_block(nested, value, path, ord) ==
    IF value = None \/ value = Some(JNull)
    THEN IF nested.min_items > 0
         THEN <<with_attribute(
                   error("Block '" \o path \o "' requires at least "
                         \o ToString(nested.min_items) \o " item(s)"),
                   path)>>
         ELSE <<>>
    ELSE IF value.v.k = "obj"
    THEN LET len == Cardinality(DOMAIN value.v.v)
         IN (IF len < nested.min_items
             THEN <<with_attribute(
                       error("Block '" \o path \o "' requires at least "
                             \o ToString(nested.min_items) \o " item(s), got "
                             \o ToString(len)),
                       path)>>
             ELSE <<>>)
            \o (IF nested.max_items > 0 /\ len > nested.max_items
                THEN <<with_attribute(
                          error("Block '" \o path \o "' allows at most "
                                \o ToString(nested.max_items) \o " item(s), got "
                                \o ToString(len)),
                          path)>>
                ELSE <<>>)
            \o MapBlockItems(nested, value.v.v, path, MapKeys(value.v.v), ord)
    ELSE <<with_attribute(
              with_detail(error("Expected map for block '" \o path \o "'"),
                          "Got " \o value_type_name(value.v)),
              path)>>

validate_nested_block(nested, value, path, ord) ==
    CASE nested.nesting_mode = "Single" -> validate_single_block(nested, value, path, ord)
      [] nested.nesting_mode = "List" -> validate_list_block(nested, value, path, ord)
      [] nested.nesting_mode = "Set" -> validate_list_block(nested, value, path, ord)
      [] nested.nesting_mode = "Map" -> validate_map_block(nested, value, path, ord)

\* validate(schema, value); ord is the order the schema's HashMaps are iterated in
validate(schema, value, ord) == validate_block(schema.block, value, "", ord)

(***************************************************************************)
(* ValidateSpec: validate applied to every schema and value of the bounds  *)
(***************************************************************************)
AttributeTypes ==
    {TString, TInt64, TFloat64, TBool, TList(TString), TSet(TInt64), TMap(TString),
     TObject("a" :> TString), TDynamic}
FlagChoices == {AttributeFlags(r, o, c) : r \in BOOLEAN, o \in BOOLEAN, c \in BOOLEAN}
Attributes == {Attribute(t, f) : t \in AttributeTypes, f \in FlagChoices}
\* Attribute::required_string(), Attribute::optional_int64(), a required list of strings
SiblingAttributes ==
    {Attribute(TString, AttributeFlags(TRUE, FALSE, FALSE)),
     Attribute(TInt64, AttributeFlags(FALSE, TRUE, FALSE)),
     Attribute(TList(TString), AttributeFlags(TRUE, FALSE, FALSE))}
NestingModes == {"Single", "List", "Set", "Map"}
InnerBlocks ==
    {Block(<<>>, <<>>),
     Block("a" :> Attribute(TString, AttributeFlags(TRUE, FALSE, FALSE)), <<>>)}
NestedBlocks ==
    {NestedBlock(b, mode, min, max) :
        b \in InnerBlocks, mode \in NestingModes,
        min \in {0, 1, MaxMinItems}, max \in 0..MaxMaxItems}
Schemas ==
    {Schema(Block(<<>>, <<>>))}
    \cup {Schema(Block("a" :> at, <<>>)) : at \in Attributes}
    \cup {Schema(Block(("a" :> x) @@ ("b" :> y), <<>>)) :
             x \in SiblingAttributes, y \in SiblingAttributes}
    \cup {Schema(Block("a" :> Attribute(TString, AttributeFlags(TRUE, FALSE, FALSE)),
                       "b" :> nb)) : nb \in NestedBlocks}

SeqsUpTo(S, n) == UNION {[1..m -> S] : m \in 0..n}
ScalarConfigs == {JNull, JNum(1), JFract(1), JStr("1"), JBool(TRUE)}
\* what the key "a" may hold
AttributeConfigs ==
    ScalarConfigs
    \cup {JArr(s) : s \in SeqsUpTo({JNum(1), JStr("1")}, MaxItems)}
    \cup {JObj(<<>>), JObj("a" :> JStr("1")), JObj("a" :> JNum(1)), JObj("b" :> JNum(1))}
\* what an item of a nested block may be
BlockItems == {JNull, JNum(1), JObj(<<>>), JObj("a" :> JStr("1")), JObj("a" :> JNum(1))}
\* what the key "b" may hold
BlockConfigs ==
    {JNull, JNum(1), JStr("1")}
    \cup {JArr(s) : s \in SeqsUpTo(BlockItems, MaxItems)}
    \cup {JObj(<<>>), JObj("a" :> JStr("1")), JObj("a" :> JNum(1))}
    \cup {JObj("a" :> x) : x \in BlockItems}
    \cup {JObj(("a" :> JObj(<<>>)) @@ ("b" :> JObj("a" :> JStr("1"))))}
ConfigValues ==
    {JNull, JStr("1"), JArr(<<>>)}
    \cup {JObj(<<>>)}
    \cup {JObj("a" :> x) : x \in AttributeConfigs}
    \cup {JObj("b" :> y) : y \in BlockConfigs}
    \cup {JObj(("a" :> x) @@ ("b" :> y)) : x \in AttributeConfigs, y \in BlockConfigs}

ValidateInit ==
    /\ v_schema \in Schemas
    /\ v_value \in ConfigValues
    /\ v_order = <<>>
    /\ v_result = None
    /\ ServeIdle /\ DiffIdle /\ RpcIdle /\ TypesIdle /\ TesterIdle

\* let diagnostics = validate(&schema, &value);
Validate ==
    /\ v_result = None
    /\ \E ord \in KeyOrders :
          /\ v_order' = ord
          /\ v_result' = Some(validate(v_schema, v_value, ord))
    /\ UNCHANGED <<v_schema, v_value, serveVars, diffVars, rpcVars, typesVars, testerVars>>

ValidateNext == Validate
ValidateSpec == ValidateInit /\ [][ValidateNext]_vars

(***************************************************************************)
(* What the diagnostics of a validation must contain                       *)
(***************************************************************************)
Dotted(base, name) == IF base = "" THEN name ELSE base \o "." \o name
\* the text of a position beneath a path: keys and indexes alike follow a dot
RECURSIVE DottedFrom(_, _)
DottedFrom(text, segs) ==
    IF segs = <<>> THEN text
    ELSE DottedFrom(Dotted(text, IF Head(segs).t = "key" THEN Head(segs).key
                                 ELSE ToString(Head(segs).idx)),
                    Tail(segs))
\* the texts of the positions at or beneath a value that sits at path
DottedWithin(path, value) == {DottedFrom(path, s) : s \in PositionsOf(value)}

\* the blocks that are validated against a JSON object, as <<block, object,
\* path>>: the root block, and the nested blocks reached through objects
\* (single), array items (list, set) and map values (map)
RECURSIVE BlockSites(_, _, _)
BlockSites(block, value, path) ==
    IF value.k # "obj" THEN {}
    ELSE {<<block, value, path>>} \cup
         UNION {LET nested == block.blocks[name]
                    v == value.v[name]
                    p == Dotted(path, name)
                IN CASE nested.nesting_mode = "Single" -> BlockSites(nested.block, v, p)
                     [] nested.nesting_mode \in {"List", "Set"} ->
                           IF v.k = "arr"
                           THEN UNION {BlockSites(nested.block, v.v[i], Dotted(p, ToString(i - 1))) :
                                       i \in DOMAIN v.v}
                           ELSE {}
                     [] nested.nesting_mode = "Map" ->
                           IF v.k = "obj"
                           THEN UNION {BlockSites(nested.block, v.v[key], Dotted(p, key)) :
                                       key \in DOMAIN v.v}
                           ELSE {}
                : name \in DOMAIN block.blocks \cap DOMAIN value.v}

\* the diagnostics whose attribute is one of the given paths
DiagnosticsAt(diagnostics, paths) ==
    SelectSeq(diagnostics, LAMBDA d : d.attribute # None /\ d.attribute.v \in paths)

\* the value has the shape the attribute type describes
RECURSIVE TypeMatches(_, _)
TypeMatches(type, value) ==
    CASE type.t = "String" -> value.k = "str"
      [] type.t = "Int64" -> value.k = "num" /\ "half" \notin DOMAIN value
      [] type.t = "Float64" -> value.k = "num"
      [] type.t = "Bool" -> value.k = "bool"
      [] type.t \in {"List", "Set"} ->
            value.k = "arr" /\ \A i \in DOMAIN value.v : TypeMatches(type.elem, value.v[i])
      [] type.t = "Map" ->
            value.k = "obj" /\ \A key \in DOMAIN value.v : TypeMatches(type.elem, value.v[key])
      [] type.t = "Object" ->
            value.k = "obj" /\ \A name \in DOMAIN type.attrs \cap DOMAIN value.v :
                                  TypeMatches(type.attrs[name], value.v[name])
      [] type.t = "Dynamic" -> TRUE

ComputedOnly(flags) == flags.computed /\ ~flags.required /\ ~flags.optional

\* C15: for each attribute declared in a block that is validated against a
\* JSON object: a computed-only attribute reports nothing, whatever the
\* presence or type of its value; otherwise an absent or null value reports
\* exactly one Error carrying the attribute's path when required is set and
\* nothing when it is not; otherwise the present value is checked against
\* the attribute's type.
C15_AttributeRules ==
    v_result # None =>
        \A site \in BlockSites(v_schema.block, v_value, "") :
            \A name \in DOMAIN site[1].attributes :
                LET attr == site[1].attributes[name]
                    obj == site[2].v
                    path == Dotted(site[3], name)
                    present == name \in DOMAIN obj /\ obj[name] # JNull
                    within == IF name \in DOMAIN obj THEN DottedWithin(path, obj[name])
                              ELSE {path}
                    ds == DiagnosticsAt(v_result.v, within)
                IN IF ComputedOnly(attr.flags) THEN ds = <<>>
                   ELSE IF ~present
                   THEN IF attr.flags.required
                        THEN /\ Len(ds) = 1
                             /\ ds[1].severity = "Error"
                             /\ ds[1].attribute = Some(path)
                        ELSE ds = <<>>
                   ELSE /\ ds = <<>> <=> TypeMatches(attr.attr_type, obj[name])
                        /\ \A i \in DOMAIN ds : ds[i].severity = "Error"
\* a required attribute whose key maps to null is reported missing
C15_Witness ==
    /\ v_result # None
    /\ v_value.k = "obj" /\ "a" \in DOMAIN v_value.v /\ v_value.v["a"] = JNull
    /\ "a" \in DOMAIN v_schema.block.attributes
    /\ v_schema.block.attributes["a"].flags.required
    /\ ~v_schema.block.attributes["a"].flags.computed
    /\ v_schema.block.attributes["a"].attr_type = TString
    /\ Len(v_result.v) = 1
    /\ v_result.v[1].summary = "Missing required attribute 'a'"

\* the violations of a value against an attribute type, as <<path, kind>>
RECURSIVE TypeViolations(_, _, _)
TypeViolations(type, value, path) ==
    CASE type.t \in {"String", "Int64", "Float64", "Bool"} ->
            IF TypeMatches(type, value) THEN {} ELSE {<<path, "type">>}
      [] type.t \in {"List", "Set"} ->
            IF value.k = "arr"
            THEN UNION {TypeViolations(type.elem, value.v[i], Dotted(path, ToString(i - 1))) :
                        i \in DOMAIN value.v}
            ELSE {<<path, "type">>}
      [] type.t = "Map" ->
            IF value.k = "obj"
            THEN UNION {TypeViolations(type.elem, value.v[key], Dotted(path, key)) :
                        key \in DOMAIN value.v}
            ELSE {<<path, "type">>}
      [] type.t = "Object" ->
            IF value.k = "obj"
            THEN UNION {TypeViolations(type.attrs[name], value.v[name], Dotted(path, name)) :
                        name \in DOMAIN type.attrs \cap DOMAIN value.v}
            ELSE {<<path, "type">>}
      [] type.t = "Dynamic" -> {}

\* the member of an object under a name is absent or null
Missing(obj, name) == name \notin DOMAIN obj \/ obj[name] = JNull

\* the violations of a value against a block, as <<path, kind>>
RECURSIVE BlockViolations(_, _, _)
BlockViolations(block, value, path) ==
    CASE value.k = "null" -> {}
      [] value.k # "obj" /\ value.k # "null" -> {<<path, "type">>}
      [] value.k = "obj" ->
            UNION {LET attr == block.attributes[name]
                       p == Dotted(path, name)
                   IN IF ComputedOnly(attr.flags) THEN {}
                      ELSE IF Missing(value.v, name)
                      THEN (IF attr.flags.required THEN {<<p, "missing">>} ELSE {})
                      ELSE TypeViolations(attr.attr_type, value.v[name], p)
                   : name \in DOMAIN block.attributes}
            \cup
            UNION {LET nested == block.blocks[name]
                       p == Dotted(path, name)
                       v == value.v[name]
                       len == IF v.k = "arr" THEN Len(v.v) ELSE Cardinality(DOMAIN v.v)
                       items == IF v.k = "arr"
                                THEN {<<ToString(i - 1), v.v[i]>> : i \in DOMAIN v.v}
                                ELSE {<<key, v.v[key]>> : key \in DOMAIN v.v}
                       collection == IF nested.nesting_mode = "Map" THEN "obj" ELSE "arr"
                   IN IF Missing(value.v, name)
                      THEN (IF nested.min_items > 0 THEN {<<p, "min">>} ELSE {})
                      ELSE IF nested.nesting_mode = "Single"
                      THEN BlockViolations(nested.block, v, p)
                      ELSE IF v.k # collection THEN {<<p, "type">>}
                      ELSE (IF len < nested.min_items THEN {<<p, "min">>} ELSE {})
                           \cup (IF nested.max_items > 0 /\ len > nested.max_items
                                 THEN {<<p, "max">>} ELSE {})
                           \cup UNION {BlockViolations(nested.block, it[2], Dotted(p, it[1])) :
                                       it \in items}
                   : name \in DOMAIN block.blocks}

\* a block without nested blocks whose attributes hold single values
FlatBlock(block) ==
    /\ DOMAIN block.blocks = {}
    /\ \A name \in DOMAIN block.attributes :
          block.attributes[name].attr_type.t \in {"String", "Int64", "Float64", "Bool", "Dynamic"}
\* the attributes of a block that an object violates
ViolatingAttributes(block, obj) ==
    {name \in DOMAIN block.attributes :
        LET attr == block.attributes[name]
        IN /\ ~ComputedOnly(attr.flags)
           /\ IF Missing(obj, name) THEN attr.flags.required
              ELSE ~TypeMatches(attr.attr_type, obj[name])}

\* C16: validate never stops at the first violation: the returned list holds
\* one diagnostic for every violation in the whole tree (missing required
\* attributes, type mismatches, cardinality violations; in sibling
\* attributes, nested blocks and collection elements), so a flat block with
\* k violating attributes yields exactly k diagnostics.
C16_EveryViolationReported ==
    v_result # None =>
        LET ds == v_result.v
            violations == BlockViolations(v_schema.block, v_value, "")
            paths == {v[1] : v \in violations}
                     \cup {UnwrapOrDefault(ds[i].attribute) : i \in DOMAIN ds}
        IN /\ Len(ds) = Cardinality(violations)
           /\ \A p \in paths :
                 Len(SelectSeq(ds, LAMBDA d : UnwrapOrDefault(d.attribute) = p))
                    = Cardinality({v \in violations : v[1] = p})
           /\ \A i \in DOMAIN ds : ds[i].severity = "Error"
           /\ (FlatBlock(v_schema.block) /\ v_value.k = "obj") =>
                 Len(ds) = Cardinality(ViolatingAttributes(v_schema.block, v_value.v))
\* two sibling attributes of a flat block are both violated and both reported
C16_Witness ==
    /\ v_result # None /\ v_value.k = "obj"
    /\ FlatBlock(v_schema.block)
    /\ ViolatingAttributes(v_schema.block, v_value.v) = {"a", "b"}
    /\ Len(v_result.v) = 2
    /\ {v_result.v[i].attribute : i \in 1..2} = {Some("a"), Some("b")}

\* the same block with List and Set nesting exchanged, at every depth
RECURSIVE SwapListSet(_)
SwapListSet(block) ==
    [block EXCEPT !.blocks =
        [name \in DOMAIN block.blocks |->
            [block.blocks[name] EXCEPT
                !.nesting_mode = CASE @ = "List" -> "Set" [] @ = "Set" -> "List" [] OTHER -> @,
                !.block = SwapListSet(@)]]]

\* the members a block declares, as paths beneath an item at path
DeclaredWithin(block, path) ==
    {Dotted(path, name) : name \in DOMAIN block.attributes \cup DOMAIN block.blocks}

\* C17: for a nested block in List or Set mode (treated identically): an
\* absent or null value yields one Error iff min_items > 0; an array of
\* length len yields one `at least` Error iff len < min_items and,
\* separately, one `at most` Error iff max_items > 0 and len > max_items,
\* and every element is then validated as a block under `<block>.<index>`;
\* a value of any other JSON kind yields exactly one type Error and is not
\* descended into.
C17_ListAndSetBlocks ==
    v_result # None =>
        /\ validate(Schema(SwapListSet(v_schema.block)), v_value, v_order) = v_result.v
        /\ \A site \in BlockSites(v_schema.block, v_value, "") :
              \A name \in {n \in DOMAIN site[1].blocks :
                              site[1].blocks[n].nesting_mode \in {"List", "Set"}} :
                 LET nested == site[1].blocks[name]
                     obj == site[2].v
                     p == Dotted(site[3], name)
                     here == DiagnosticsAt(v_result.v, {p})
                 IN IF Missing(obj, name)
                    THEN /\ Len(here) = IF nested.min_items > 0 THEN 1 ELSE 0
                         /\ \A i \in DOMAIN here : here[i].severity = "Error"
                    ELSE IF obj[name].k = "arr"
                    THEN LET arr == obj[name].v
                             len == Len(arr)
                             least == SelectSeq(here, LAMBDA d : d.summary =
                                         "Block '" \o p \o "' requires at least "
                                         \o ToString(nested.min_items) \o " item(s), got "
                                         \o ToString(len))
                             most == SelectSeq(here, LAMBDA d : d.summary =
                                         "Block '" \o p \o "' allows at most "
                                         \o ToString(nested.max_items) \o " item(s), got "
                                         \o ToString(len))
                         IN /\ Len(least) = IF len < nested.min_items THEN 1 ELSE 0
                            /\ Len(most) = IF nested.max_items > 0 /\ len > nested.max_items
                                           THEN 1 ELSE 0
                            /\ Len(here) = Len(least) + Len(most)
                            /\ \A i \in DOMAIN here : here[i].severity = "Error"
                            /\ \A i \in DOMAIN arr :
                                  LET item == Dotted(p, ToString(i - 1))
                                  IN DiagnosticsAt(v_result.v,
                                                   DottedWithin(item, arr[i])
                                                   \cup DeclaredWithin(nested.block, item))
                                     = validate_block(nested.block, arr[i], item, v_order)
                    ELSE /\ Len(here) = 1
                         /\ here[1].severity = "Error"
                         /\ here[1].summary = "Expected list for block '" \o p \o "'"
                         /\ DiagnosticsAt(v_result.v, DottedWithin(p, obj[name]) \ {p}) = <<>>
\* a two-item array under a block that wants at least three and at most one
\* item: both cardinality errors, then the diagnostics of the items
C17_Witness ==
    /\ v_result # None /\ v_value.k = "obj"
    /\ "b" \in DOMAIN v_schema.block.blocks /\ "b" \in DOMAIN v_value.v
    /\ v_schema.block.blocks["b"].nesting_mode = "Set"
    /\ v_schema.block.blocks["b"].min_items = MaxMinItems
    /\ v_schema.block.blocks["b"].max_items = 1
    /\ v_value.v["b"].k = "arr" /\ Len(v_value.v["b"].v) = 2
    /\ Len(DiagnosticsAt(v_result.v, {"b"})) = 2
    /\ DiagnosticsAt(v_result.v, {"b.0.a"}) # <<>>
    /\ DiagnosticsAt(v_result.v, {"b.1"}) # <<>>

\* the schema's block declares nothing but one required attribute "a" of type Dynamic
OnlyRequiredDynamic ==
    /\ DOMAIN v_schema.block.blocks = {}
    /\ DOMAIN v_schema.block.attributes = {"a"}
    /\ v_schema.block.attributes["a"].attr_type = TDynamic
    /\ v_schema.block.attributes["a"].flags.required

\* C18: an attribute of type Dynamic accepts any value: for a block whose
\* only attribute is a required attribute of type Dynamic, validate returns
\* no diagnostics for every object that contains that attribute's key,
\* whatever JSON value the key maps to.
C18_DynamicAcceptsAny ==
    (v_result # None /\ OnlyRequiredDynamic
        /\ v_value.k = "obj" /\ "a" \in DOMAIN v_value.v) =>
        v_result.v = <<>>

\* C18 (amended): for a block whose only attribute is a required attribute
\* of type Dynamic, validate returns no diagnostics for every object in
\* which the attribute's key maps to a non-null JSON value; when the key
\* maps to null the attribute is reported missing by exactly one Error.
C18_DynamicAcceptsAnyNonNull ==
    (v_result # None /\ OnlyRequiredDynamic
        /\ v_value.k = "obj" /\ "a" \in DOMAIN v_value.v) =>
        IF v_value.v["a"] # JNull THEN v_result.v = <<>>
        ELSE /\ Len(v_result.v) = 1
             /\ v_result.v[1].severity = "Error"
             /\ v_result.v[1].summary = "Missing required attribute 'a'"
             /\ v_result.v[1].attribute = Some("a")
\* a required Dynamic attribute holding a non-empty array passes
C18_Witness ==
    /\ v_result # None /\ OnlyRequiredDynamic
    /\ v_value.k = "obj" /\ "a" \in DOMAIN v_value.v
    /\ v_value.v["a"].k = "arr" /\ v_value.v["a"].v # <<>>
    /\ v_result.v = <<>>

\* the null elements of the List, Set and Map nested blocks of a validation,
\* as <<block, path>> of the element
NullBlockItems(block, value) ==
    UNION {UNION {LET nested == site[1].blocks[name]
                      v == site[2].v[name]
                      p == Dotted(site[3], name)
                  IN CASE nested.nesting_mode \in {"List", "Set"} /\ v.k = "arr" ->
                             {<<nested.block, Dotted(p, ToString(i - 1))>> :
                                 i \in {j \in DOMAIN v.v : v.v[j] = JNull}}
                       [] nested.nesting_mode = "Map" /\ v.k = "obj" ->
                             {<<nested.block, Dotted(p, key)>> :
                                 key \in {k \in DOMAIN v.v : v.v[k] = JNull}}
                       [] OTHER -> {}
                  : name \in DOMAIN site[1].blocks \cap DOMAIN site[2].v}
           : site \in BlockSites(block, value, "")}

\* C22: validate(schema, null) returns an empty list for every schema, also
\* one that declares required attributes or nested blocks with min_items > 0,
\* and a null element of a List, Set or Map nested block gets no diagnostic,
\* neither at its own path nor at a member the block declares beneath it.
C22_NullBlockChecksNothing ==
    v_result # None =>
        /\ v_value = JNull => v_result.v = <<>>
        /\ \A item \in NullBlockItems(v_schema.block, v_value) :
              DiagnosticsAt(v_result.v, {item[2]} \cup DeclaredWithin(item[1], item[2])) = <<>>
\* null has been validated against a schema with a required attribute and a
\* nested block that requires items
C22_Witness ==
    /\ v_result # None /\ v_value = JNull
    /\ "a" \in DOMAIN v_schema.block.attributes
    /\ v_schema.block.attributes["a"].flags.required
    /\ "b" \in DOMAIN v_schema.block.blocks
    /\ v_schema.block.blocks["b"].min_items > 0
    /\ v_result.v = <<>>
\* a List block whose items need the attribute "a": the null item at index 0
\* is passed over, the empty object at index 1 is reported
C22_WitnessItem ==
    /\ v_result # None /\ v_value.k = "obj" /\ "b" \in DOMAIN v_value.v
    /\ "b" \in DOMAIN v_schema.block.blocks
    /\ v_schema.block.blocks["b"].nesting_mode = "List"
    /\ v_value.v["b"] = JArr(<<JNull, JObj(<<>>)>>)
    /\ DiagnosticsAt(v_result.v, {"b.0", "b.0.a"}) = <<>>
    /\ DiagnosticsAt(v_result.v, {"b.1.a"}) # <<>>

\* the objects of a value that are validated as a block or as an Object-typed
\* attribute, as <<position, names declared there>>
RECURSIVE TypeSites(_, _, _), ObjectSites(_, _, _)
TypeSites(type, value, segs) ==
    CASE type.t = "Object" /\ value.k = "obj" ->
            {<<segs, DOMAIN type.attrs>>}
            \cup UNION {TypeSites(type.attrs[name], value.v[name],
                                  Append(segs, KeySeg(name))) :
                        name \in DOMAIN type.attrs \cap DOMAIN value.v}
      [] type.t \in {"List", "Set"} /\ value.k = "arr" ->
            UNION {TypeSites(type.elem, value.v[i], Append(segs, IdxSeg(i - 1))) :
                   i \in DOMAIN value.v}
      [] type.t = "Map" /\ value.k = "obj" ->
            UNION {TypeSites(type.elem, value.v[key], Append(segs, KeySeg(key))) :
                   key \in DOMAIN value.v}
      [] OTHER -> {}
ObjectSites(block, value, segs) ==
    IF value.k # "obj" THEN {}
    ELSE {<<segs, DOMAIN block.attributes \cup DOMAIN block.blocks>>}
         \cup UNION {TypeSites(block.attributes[name].attr_type, value.v[name],
                               Append(segs, KeySeg(name))) :
                     name \in DOMAIN block.attributes \cap DOMAIN value.v}
         \cup UNION {LET nested == block.blocks[name]
                         v == value.v[name]
                         here == Append(segs, KeySeg(name))
                     IN CASE nested.nesting_mode = "Single" ->
                                ObjectSites(nested.block, v, here)
                          [] nested.nesting_mode \in {"List", "Set"} /\ v.k = "arr" ->
                                UNION {ObjectSites(nested.block, v.v[i],
                                                   Append(here, IdxSeg(i - 1))) :
                                       i \in DOMAIN v.v}
                          [] nested.nesting_mode = "Map" /\ v.k = "obj" ->
                                UNION {ObjectSites(nested.block, v.v[key],
                                                   Append(here, KeySeg(key))) :
                                       key \in DOMAIN v.v}
                          [] OTHER -> {}
                     : name \in DOMAIN block.blocks \cap DOMAIN value.v}

\* the value at a position of a value
RECURSIVE ValueAt(_, _)
ValueAt(value, segs) ==
    IF segs = <<>> THEN value
    ELSE IF Head(segs).t = "key" THEN ValueAt(value.v[Head(segs).key], Tail(segs))
         ELSE ValueAt(value.v[Head(segs).idx + 1], Tail(segs))
\* value with the member key -> x added to the object at a position
RECURSIVE WithMember(_, _, _, _)
WithMember(value, segs, key, x) ==
    IF segs = <<>> THEN JObj((key :> x) @@ value.v)
    ELSE IF Head(segs).t = "key"
         THEN JObj([value.v EXCEPT ![Head(segs).key] = WithMember(@, Tail(segs), key, x)])
         ELSE JArr([value.v EXCEPT ![Head(segs).idx + 1] = WithMember(@, Tail(segs), key, x)])

ExtraKeys == {"a", "b", "a.b"}
ExtraValues == {JStr("1"), JObj("a" :> JNum(1))}

\* C30: adding a key the schema does not declare, with any value, to an
\* object that is validated as a block or as an Object-typed attribute leaves
\* the diagnostics of validate unchanged.
C30_UndeclaredKeysIgnored ==
    v_result # None =>
        \A site \in ObjectSites(v_schema.block, v_value, <<>>) :
            \A key \in (ExtraKeys \ site[2]) \ DOMAIN ValueAt(v_value, site[1]).v :
                \A x \in ExtraValues :
                    validate(v_schema, WithMember(v_value, site[1], key, x), v_order)
                        = v_result.v
\* an object with the undeclared key "b" beside a mistyped declared "a": the
\* diagnostics are those of the object without "b", and there are some
C30_Witness ==
    /\ v_result # None /\ v_value.k = "obj"
    /\ DOMAIN v_value.v = {"a", "b"}
    /\ DOMAIN v_schema.block.attributes = {"a"} /\ DOMAIN v_schema.block.blocks = {}
    /\ v_result.v # <<>>
    /\ v_result.v = validate(v_schema, JObj("a" :> v_value.v["a"]), v_order)

(***************************************************************************)
(* AttributeChange from its wire message, and check_protocol_version       *)
(***************************************************************************)
\* if payload.is_empty() { None } else { serde_json::from_slice(&payload).ok() }
OptionFromPayload(payload) ==
    IF payload = <<>> THEN None
    ELSE LET r == from_slice(payload) IN IF r.ok THEN Some(r.v) ELSE None

\* impl From<generated::AttributeChange> for AttributeChange
change_from_proto(proto) ==
    [path |-> proto.path,
     before |-> OptionFromPayload(proto.before),
     after |-> OptionFromPayload(proto.after)]

\* faulty variant: a client newer than the server is rejected as well
check_protocol_version_rejects_newer(client_version) ==
    IF client_version < MIN_PROTOCOL_VERSION \/ client_version > PROTOCOL_VERSION
    THEN [result |-> Err("Client protocol version " \o ToString(client_version)
                         \o " is too old. Minimum supported version is "
                         \o ToString(MIN_PROTOCOL_VERSION)),
          warned |-> FALSE]
    ELSE [result |-> Ok(<<>>), warned |-> FALSE]
\* the Result it returns, and whether tracing::warn! was called
check_protocol_version(client_version) ==
    IF client_version < MIN_PROTOCOL_VERSION
    THEN [result |-> Err("Client protocol version " \o ToString(client_version)
                         \o " is too old. Minimum supported version is "
                         \o ToString(MIN_PROTOCOL_VERSION)),
          warned |-> FALSE]
    ELSE [result |-> Ok(<<>>), warned |-> client_version > PROTOCOL_VERSION]

(***************************************************************************)
(* TypesSpec: an AttributeChange sent over the wire and read back, and a   *)
(* client version checked                                                  *)
(***************************************************************************)
\* the values a change may carry: the bounded values, the empty string, the
\* bools, a fraction, and arrays nested as deep as the deserializer's limit
WireValues ==
    Values \cup {JStr(""), JBool(TRUE), JBool(FALSE), JFract(1),
                 NestedArrays(RecursionLimit)}
EmptyValues == {JNull, JStr(""), JArr(<<>>), JObj(<<>>)}
ChangePaths == {"a", "a.b[0]"}
Changes ==
    {added(p, x) : p \in ChangePaths, x \in WireValues}
    \cup {removed(p, x) : p \in ChangePaths, x \in WireValues}
    \cup {modified("a", x, y) : x \in WireValues, y \in EmptyValues}
    \cup {modified("a", x, y) : x \in EmptyValues, y \in WireValues}
\* client_version: u32
ClientVersions == 0..MaxVersion

TypesInit ==
    /\ t_change \in Changes
    /\ t_proto = None /\ t_back = None
    /\ t_version \in ClientVersions
    /\ t_check = None
    /\ ServeIdle /\ DiffIdle /\ RpcIdle /\ ValidateIdle /\ TesterIdle

\* let proto: generated::AttributeChange = change.into();
ToProto ==
    /\ t_proto = None
    /\ t_proto' = Some(change_to_proto(t_change))
    /\ UNCHANGED <<t_change, t_back, t_version, t_check,
                   serveVars, diffVars, rpcVars, validateVars, testerVars>>

\* let back: AttributeChange = proto.into();
FromProto ==
    /\ t_proto # None /\ t_back = None
    /\ t_back' = Some(change_from_proto(t_proto.v))
    /\ UNCHANGED <<t_change, t_proto, t_version, t_check,
                   serveVars, diffVars, rpcVars, validateVars, testerVars>>

\* check_protocol_version(client_version)
CheckProtocolVersion ==
    /\ t_check = None
    /\ t_check' = Some(check_protocol_version(t_version))
    /\ UNCHANGED <<t_change, t_proto, t_back, t_version,
                   serveVars, diffVars, rpcVars, validateVars, testerVars>>

TypesNext == ToProto \/ FromProto \/ CheckProtocolVersion
TypesSpec == TypesInit /\ [][TypesNext]_vars

\* C19: check_protocol_version(v) returns an error if and only if v is
\* strictly below MIN_PROTOCOL_VERSION; it returns Ok for PROTOCOL_VERSION
\* and every higher version (a higher version only produces a warning), and
\* MIN_PROTOCOL_VERSION is not greater than PROTOCOL_VERSION.
C19_VersionCheck ==
    /\ MIN_PROTOCOL_VERSION <= PROTOCOL_VERSION
    /\ t_check # None =>
          /\ ~t_check.v.result.ok <=> t_version < MIN_PROTOCOL_VERSION
          /\ t_version >= PROTOCOL_VERSION => t_check.v.result.ok
          /\ t_check.v.warned <=> t_version > PROTOCOL_VERSION
          /\ t_check.v.warned => t_check.v.result.ok
\* a client older than the minimum is rejected
C19_Witness ==
    /\ t_check # None
    /\ t_version < MIN_PROTOCOL_VERSION
    /\ ~t_check.v.result.ok /\ ~t_check.v.warned

\* C20: converting an AttributeChange to its wire message and back returns
\* an equal AttributeChange (same path, before and after), for additions,
\* removals and modifications and for every JSON value, including null, the
\* empty string, the empty array and the empty object; an absent before or
\* after is encoded as an empty payload and decoded back as absent.
C20_WireRoundTrip ==
    /\ t_proto # None =>
          /\ t_change.before = None <=> t_proto.v.before = <<>>
          /\ t_change.after = None <=> t_proto.v.after = <<>>
    /\ t_back # None => t_back.v = t_change

(***************************************************************************)
(* testing::ProviderTester: the harness calls the provider in-process.     *)
(***************************************************************************)
MaxDiagnostics == 3  \* diagnostics lists of at most this many entries

\* TestError::Diagnostics(Vec<Diagnostic>)
TestErrorDiagnostics(diags) == [variant |-> "Diagnostics", diags |-> diags]
\* impl From<ProviderError> for TestError
TestErrorProvider(e) == [variant |-> "Provider", error |-> e]

\* diagnostics.into_iter().filter(|d| matches!(d.severity, DiagnosticSeverity::Error)).collect()
RECURSIVE FilterErrors(_)
FilterErrors(diagnostics) ==
    IF diagnostics = <<>> THEN <<>>
    ELSE (IF Head(diagnostics).severity = "Error" THEN <<Head(diagnostics)>> ELSE <<>>)
         \o FilterErrors(Tail(diagnostics))

\* faulty variant: the error carries the whole list, warnings included
check_diagnostics_unfiltered(diagnostics) ==
    IF FilterErrors(diagnostics) = <<>> THEN Ok(<<>>)
    ELSE Err(TestErrorDiagnostics(diagnostics))

check_diagnostics(diagnostics) ==
    LET errors == FilterErrors(diagnostics)
    IN IF errors = <<>> THEN Ok(<<>>) ELSE Err(TestErrorDiagnostics(errors))

\* `let diagnostics = self.provider.<method>(..).await?; check_diagnostics(diagnostics)`
CheckOutcome(outcome) ==
    IF outcome.ok THEN check_diagnostics(outcome.v) ELSE Err(TestErrorProvider(outcome.e))

\* a call of a ProviderService method made by the harness
TesterCall(method, args) == [method |-> method, args |-> args]

\* ProviderTester::plan_create / plan_update / plan_delete: the provider call made
plan_create(resource_type, proposed_state) ==
    TesterCall("plan", [resource_type |-> resource_type, prior_state |-> None,
                        proposed_state |-> proposed_state, config |-> proposed_state])

\* faulty variant: the prior state is not passed on
plan_update_no_prior(resource_type, prior_state, proposed_state) ==
    TesterCall("plan", [resource_type |-> resource_type, prior_state |-> None,
                        proposed_state |-> proposed_state, config |-> proposed_state])

plan_update(resource_type, prior_state, proposed_state) ==
    TesterCall("plan", [resource_type |-> resource_type, prior_state |-> Some(prior_state),
                        proposed_state |-> proposed_state, config |-> proposed_state])

plan_delete(resource_type, prior_state) ==
    TesterCall("plan", [resource_type |-> resource_type, prior_state |-> Some(prior_state),
                        proposed_state |-> JNull, config |-> JNull])

(***************************************************************************)
(* TesterSpec: one harness method runs against a provider whose methods    *)
(* return any of a few outcomes                                            *)
(***************************************************************************)
TesterStates == {JObj("a" :> JNum(0)), JObj("a" :> JNum(1)), JObj("a" :> JNum(2))}
TesterFailures == {Err(ProviderError("NotFound", "gone")), Err(ProviderError("Sdk", "boom"))}
TesterDiagnostics ==
    {Diagnostic("Warning", "deprecated", None, None),
     Diagnostic("Error", "invalid", Some("must be set"), Some("name")),
     Diagnostic("Error", "unknown", None, None)}
TesterDiagnosticOutcomes ==
    {Ok(ds) : ds \in SeqsUpTo(TesterDiagnostics, MaxDiagnostics)} \cup TesterFailures
TesterStateOutcomes == {Ok(x) : x \in TesterStates} \cup TesterFailures
TesterPlanOutcomes == {Ok(PlanResult(x, <<>>, FALSE)) : x \in TesterStates} \cup TesterFailures
TesterUnitOutcomes == {Ok(<<>>)} \cup TesterFailures

TesterInit ==
    /\ TesterIdle
    /\ ServeIdle /\ DiffIdle /\ RpcIdle /\ ValidateIdle /\ TypesIdle

\* ProviderTester::validate_provider_config(config)
TesterValidateProviderConfig ==
    /\ pt_pc = "idle"
    /\ \E config \in TesterStates, outcome \in TesterDiagnosticOutcomes :
          /\ pt_args' = [method |-> "validate_provider_config", config |-> config]
          /\ pt_calls' = <<TesterCall("validate_provider_config", [config |-> config])>>
          /\ pt_returns' = <<outcome>>
          /\ pt_result' = Some(CheckOutcome(outcome))
    /\ pt_pc' = "done"
    /\ UNCHANGED <<pt_locals, serveVars, diffVars, rpcVars, validateVars, typesVars>>

\* ProviderTester::configure(config)
TesterConfigure ==
    /\ pt_pc = "idle"
    /\ \E config \in TesterStates, outcome \in TesterDiagnosticOutcomes :
          /\ pt_args' = [method |-> "configure", config |-> config]
          /\ pt_calls' = <<TesterCall("configure", [config |-> config])>>
          /\ pt_returns' = <<outcome>>
          /\ pt_result' = Some(CheckOutcome(outcome))
    /\ pt_pc' = "done"
    /\ UNCHANGED <<pt_locals, serveVars, diffVars, rpcVars, validateVars, typesVars>>

\* ProviderTester::validate_resource_config(resource_type, config)
TesterValidateResourceConfig ==
    /\ pt_pc = "idle"
    /\ \E resource_type \in ResourceTypes, config \in TesterStates,
          outcome \in TesterDiagnosticOutcomes :
          /\ pt_args' = [method |-> "validate_resource_config",
                         resource_type |-> resource_type, config |-> config]
          /\ pt_calls' = <<TesterCall("validate_resource_config",
                                      [resource_type |-> resource_type, config |-> config])>>
          /\ pt_returns' = <<outcome>>
          /\ pt_result' = Some(CheckOutcome(outcome))
    /\ pt_pc' = "done"
    /\ UNCHANGED <<pt_locals, serveVars, diffVars, rpcVars, validateVars, typesVars>>

\* ProviderTester::validate_data_source_config(data_source_type, config)
TesterValidateDataSourceConfig ==
    /\ pt_pc = "idle"
    /\ \E data_source_type \in DataSourceTypes, config \in TesterStates,
          outcome \in TesterDiagnosticOutcomes :
          /\ pt_args' = [method |-> "validate_data_source_config",
                         data_source_type |-> data_source_type, config |-> config]
          /\ pt_calls' = <<TesterCall("validate_data_source_config",
                                      [data_source_type |-> data_source_type,
                                       config |-> config])>>
          /\ pt_returns' = <<outcome>>
          /\ pt_result' = Some(CheckOutcome(outcome))
    /\ pt_pc' = "done"
    /\ UNCHANGED <<pt_locals, serveVars, diffVars, rpcVars, validateVars, typesVars>>

\* ProviderTester::lifecycle_crud(resource_type, initial_config, updated_config) is entered
LifecycleCrud ==
    /\ pt_pc = "idle"
    /\ \E resource_type \in ResourceTypes, initial_config \in TesterStates,
          updated_config \in TesterStates :
          pt_args' = [method |-> "lifecycle_crud", resource_type |-> resource_type,
                      initial_config |-> initial_config, updated_config |-> updated_config]
    /\ pt_locals' = [plan_result |-> None, state |-> None,
                     created_state |-> None, updated_state |-> None]
    /\ pt_pc' = "plan_create"
    /\ UNCHANGED <<pt_calls, pt_returns, pt_result,
                   serveVars, diffVars, rpcVars, validateVars, typesVars>>

\* lifecycle_create: let plan_result = self.plan_create(resource_type, config).await?;
PlanCreate ==
    /\ pt_pc = "plan_create"
    /\ pt_calls' = Append(pt_calls, plan_create(pt_args.resource_type, pt_args.initial_config))
    /\ \E outcome \in TesterPlanOutcomes :
          /\ pt_returns' = Append(pt_returns, outcome)
          /\ IF outcome.ok
             THEN /\ pt_locals' = [pt_locals EXCEPT !.plan_result = Some(outcome.v)]
                  /\ pt_pc' = "create"
                  /\ UNCHANGED pt_result
             ELSE /\ pt_result' = Some(outcome)
                  /\ pt_pc' = "done"
                  /\ UNCHANGED pt_locals
    /\ UNCHANGED <<pt_args, serveVars, diffVars, rpcVars, validateVars, typesVars>>

\* lifecycle_create: let created_state = self.create(resource_type, plan_result.planned_state).await?;
CreatePlanned ==
    /\ pt_pc = "create"
    /\ pt_calls' = Append(pt_calls,
                          TesterCall("create",
                                     [resource_type |-> pt_args.resource_type,
                                      planned_state |-> pt_locals.plan_result.v.planned_state]))
    /\ \E outcome \in TesterStateOutcomes :
          /\ pt_returns' = Append(pt_returns, outcome)
          /\ IF outcome.ok
             THEN /\ pt_locals' = [pt_locals EXCEPT !.state = Some(outcome.v)]
                  /\ pt_pc' = "read_created"
                  /\ UNCHANGED pt_result
             ELSE /\ pt_result' = Some(outcome)
                  /\ pt_pc' = "done"
                  /\ UNCHANGED pt_locals
    /\ UNCHANGED <<pt_args, serveVars, diffVars, rpcVars, validateVars, typesVars>>

\* lifecycle_create: self.read(resource_type, created_state).await ; its value is
\* lifecycle_crud's created_state, its error is returned by `?`
ReadCreated ==
    /\ pt_pc = "read_created"
    /\ pt_calls' = Append(pt_calls,
                          TesterCall("read", [resource_type |-> pt_args.resource_type,
                                              current_state |-> pt_locals.state.v]))
    /\ \E outcome \in TesterStateOutcomes :
          /\ pt_returns' = Append(pt_returns, outcome)
          /\ IF outcome.ok
             THEN /\ pt_locals' = [pt_locals EXCEPT !.created_state = Some(outcome.v)]
                  /\ pt_pc' = "plan_update"
                  /\ UNCHANGED pt_result
             ELSE /\ pt_result' = Some(outcome)
                  /\ pt_pc' = "done"
                  /\ UNCHANGED pt_locals
    /\ UNCHANGED <<pt_args, serveVars, diffVars, rpcVars, validateVars, typesVars>>

\* lifecycle_update(resource_type, created_state.clone(), updated_config):
\* let plan_result = self.plan_update(resource_type, prior_state.clone(), proposed_state).await?;
PlanUpdate ==
    /\ pt_pc = "plan_update"
    /\ pt_calls' = Append(pt_calls, plan_update(pt_args.resource_type,
                                                pt_locals.created_state.v,
                                                pt_args.updated_config))
    /\ \E outcome \in TesterPlanOutcomes :
          /\ pt_returns' = Append(pt_returns, outcome)
          /\ IF outcome.ok
             THEN /\ pt_locals' = [pt_locals EXCEPT !.plan_result = Some(outcome.v)]
                  /\ pt_pc' = "update"
                  /\ UNCHANGED pt_result
             ELSE /\ pt_result' = Some(outcome)
                  /\ pt_pc' = "done"
                  /\ UNCHANGED pt_locals
    /\ UNCHANGED <<pt_args, serveVars, diffVars, rpcVars, validateVars, typesVars>>

\* lifecycle_update: let updated_state =
\*     self.update(resource_type, prior_state, plan_result.planned_state).await?;
UpdatePlanned ==
    /\ pt_pc = "update"
    /\ pt_calls' = Append(pt_calls,
                          TesterCall("update",
                                     [resource_type |-> pt_args.resource_type,
                                      prior_state |-> pt_locals.created_state.v,
                                      planned_state |-> pt_locals.plan_result.v.planned_state]))
    /\ \E outcome \in TesterStateOutcomes :
          /\ pt_returns' = Append(pt_returns, outcome)
          /\ IF outcome.ok
             THEN /\ pt_locals' = [pt_locals EXCEPT !.state = Some(outcome.v)]
                  /\ pt_pc' = "read_updated"
                  /\ UNCHANGED pt_result
             ELSE /\ pt_result' = Some(outcome)
                  /\ pt_pc' = "done"
                  /\ UNCHANGED pt_locals
    /\ UNCHANGED <<pt_args, serveVars, diffVars, rpcVars, validateVars, typesVars>>

\* lifecycle_update: self.read(resource_type, updated_state).await ; its value is
\* lifecycle_crud's updated_state
ReadUpdated ==
    /\ pt_pc = "read_updated"
    /\ pt_calls' = Append(pt_calls,
                          TesterCall("read", [resource_type |-> pt_args.resource_type,
                                              current_state |-> pt_locals.state.v]))
    /\ \E outcome \in TesterStateOutcomes :
          /\ pt_returns' = Append(pt_returns, outcome)
          /\ IF outcome.ok
             THEN /\ pt_locals' = [pt_locals EXCEPT !.updated_state = Some(outcome.v)]
                  /\ pt_pc' = "plan_delete"
                  /\ UNCHANGED pt_result
             ELSE /\ pt_result' = Some(outcome)
                  /\ pt_pc' = "done"
                  /\ UNCHANGED pt_locals
    /\ UNCHANGED <<pt_args, serveVars, diffVars, rpcVars, validateVars, typesVars>>

\* lifecycle_delete(resource_type, updated_state.clone()):
\* let _ = self.plan_delete(resource_type, current_state.clone()).await?;
PlanDelete ==
    /\ pt_pc = "plan_delete"
    /\ pt_calls' = Append(pt_calls, plan_delete(pt_args.resource_type,
                                                pt_locals.updated_state.v))
    /\ \E outcome \in TesterPlanOutcomes :
          /\ pt_returns' = Append(pt_returns, outcome)
          /\ IF outcome.ok
             THEN /\ pt_pc' = "delete"
                  /\ UNCHANGED pt_result
             ELSE /\ pt_result' = Some(outcome)
                  /\ pt_pc' = "done"
    /\ UNCHANGED <<pt_args, pt_locals, serveVars, diffVars, rpcVars, validateVars, typesVars>>

\* lifecycle_delete: self.delete(resource_type, current_state).await ;
\* lifecycle_crud: `?` then Ok(updated_state)
DeleteCurrent ==
    /\ pt_pc = "delete"
    /\ pt_calls' = Append(pt_calls,
                          TesterCall("delete", [resource_type |-> pt_args.resource_type,
                                                current_state |-> pt_locals.updated_state.v]))
    /\ \E outcome \in TesterUnitOutcomes :
          /\ pt_returns' = Append(pt_returns, outcome)
          /\ pt_result' = IF outcome.ok THEN Some(Ok(pt_locals.updated_state.v))
                          ELSE Some(outcome)
    /\ pt_pc' = "done"
    /\ UNCHANGED <<pt_args, pt_locals, serveVars, diffVars, rpcVars, validateVars, typesVars>>

TesterNext ==
    \/ TesterValidateProviderConfig \/ TesterConfigure
    \/ TesterValidateResourceConfig \/ TesterValidateDataSourceConfig
    \/ LifecycleCrud \/ PlanCreate \/ CreatePlanned \/ ReadCreated
    \/ PlanUpdate \/ UpdatePlanned \/ ReadUpdated \/ PlanDelete \/ DeleteCurrent
TesterSpec == TesterInit /\ [][TesterNext]_vars

\* the methods that hand the provider's diagnostics to check_diagnostics
CheckedMethods == {"validate_provider_config", "configure",
                   "validate_resource_config", "validate_data_source_config"}
\* the positions of the Error-severity entries of a diagnostics list
ErrorPositions(diagnostics) ==
    {i \in 1..Len(diagnostics) : diagnostics[i].severity = "Error"}
\* errors is diagnostics with the warnings taken out and the order kept
IsErrorSubset(errors, diagnostics) ==
    /\ Len(errors) = Cardinality(ErrorPositions(diagnostics))
    /\ \A i \in 1..Len(errors) :
          \E k \in ErrorPositions(diagnostics) :
             /\ Cardinality({j \in ErrorPositions(diagnostics) : j <= k}) = i
             /\ errors[i] = diagnostics[k]
CheckedRunDone == pt_pc = "done" /\ pt_args.method \in CheckedMethods
\* the diagnostics the provider returned (none when its method failed)
ReturnedDiagnostics == IF pt_returns[1].ok THEN pt_returns[1].v ELSE <<>>

\* C21: a run of validate_provider_config, configure, validate_resource_config
\* or validate_data_source_config of the harness succeeds exactly when the
\* provider returned no Error-severity diagnostic, and a failed run returns
\* the Error-severity diagnostics alone, in their original order.
C21_FailsOnlyOnErrorDiagnostics ==
    CheckedRunDone =>
        /\ pt_result.v.ok <=> ErrorPositions(ReturnedDiagnostics) = {}
        /\ ~pt_result.v.ok =>
              /\ pt_result.v.e.variant = "Diagnostics"
              /\ IsErrorSubset(pt_result.v.e.diags, ReturnedDiagnostics)

\* C21 amended: as C21 for the runs in which the provider method returned a
\* diagnostics list; a run in which the provider method itself failed with a
\* ProviderError fails with that error, wrapped as TestError::Provider.
C21_FailsOnErrorDiagnosticsOrProviderError ==
    CheckedRunDone =>
        /\ pt_returns[1].ok =>
              /\ pt_result.v.ok <=> ErrorPositions(pt_returns[1].v) = {}
              /\ ~pt_result.v.ok =>
                    /\ pt_result.v.e.variant = "Diagnostics"
                    /\ IsErrorSubset(pt_result.v.e.diags, pt_returns[1].v)
        /\ ~pt_returns[1].ok =>
              pt_result.v = Err([variant |-> "Provider", error |-> pt_returns[1].e])
\* configure got a warning between two errors and failed with the two errors
C21_Witness ==
    /\ pt_pc = "done" /\ pt_args.method = "configure"
    /\ pt_returns[1] = Ok(<<Diagnostic("Error", "unknown", None, None),
                            Diagnostic("Warning", "deprecated", None, None),
                            Diagnostic("Error", "invalid", Some("must be set"), Some("name"))>>)
    /\ pt_result.v = Err([variant |-> "Diagnostics",
                          diags |-> <<Diagnostic("Error", "unknown", None, None),
                                      Diagnostic("Error", "invalid", Some("must be set"),
                                                 Some("name"))>>])

\* the provider call lifecycle_crud makes as its i-th, given its arguments and
\* what the provider returned for the calls before it
CrudCall(i, args, returns) ==
    LET rt == args.resource_type
    IN CASE i = 1 -> TesterCall("plan", [resource_type |-> rt, prior_state |-> None,
                                         proposed_state |-> args.initial_config,
                                         config |-> args.initial_config])
         [] i = 2 -> TesterCall("create", [resource_type |-> rt,
                                           planned_state |-> returns[1].v.planned_state])
         [] i = 3 -> TesterCall("read", [resource_type |-> rt,
                                         current_state |-> returns[2].v])
         [] i = 4 -> TesterCall("plan", [resource_type |-> rt,
                                         prior_state |-> Some(returns[3].v),
                                         proposed_state |-> args.updated_config,
                                         config |-> args.updated_config])
         [] i = 5 -> TesterCall("update", [resource_type |-> rt,
                                           prior_state |-> returns[3].v,
                                           planned_state |-> returns[4].v.planned_state])
         [] i = 6 -> TesterCall("read", [resource_type |-> rt,
                                         current_state |-> returns[5].v])
         [] i = 7 -> TesterCall("plan", [resource_type |-> rt,
                                         prior_state |-> Some(returns[6].v),
                                         proposed_state |-> JNull, config |-> JNull])
         [] i = 8 -> TesterCall("delete", [resource_type |-> rt,
                                           current_state |-> returns[6].v])
CrudRun == pt_args # None /\ pt_args.method = "lifecycle_crud"

\* C23: lifecycle_crud calls the provider in the order plan(no prior), create,
\* read, plan(with prior), update, read, plan(with prior, null proposed),
\* delete, each call getting the state produced before it; no provider method
\* is called after the first failed one, whose error is returned; when all
\* eight succeed the state read after the update is returned.
C23_CrudOrder ==
    CrudRun =>
        /\ Len(pt_calls) = Len(pt_returns) /\ Len(pt_calls) <= 8
        /\ \A i \in 1..Len(pt_calls) :
              /\ pt_calls[i] = CrudCall(i, pt_args, pt_returns)
              /\ i < Len(pt_calls) => pt_returns[i].ok
        /\ pt_pc = "done" <=> pt_result # None
        /\ pt_pc = "done" =>
              LET last == pt_returns[Len(pt_returns)]
              IN /\ Len(pt_returns) >= 1
                 /\ ~last.ok => pt_result.v = last
                 /\ last.ok => /\ Len(pt_calls) = 8
                               /\ pt_result.v = Ok(pt_returns[6].v)
        /\ pt_pc # "done" => \A i \in 1..Len(pt_returns) : pt_returns[i].ok
\* a full run in which every step returned a state different from the one it
\* was given, and the state read after the update came back
C23_Witness ==
    /\ CrudRun /\ pt_pc = "done" /\ Len(pt_calls) = 8
    /\ pt_result.v.ok
    /\ pt_returns[1].v.planned_state # pt_args.initial_config
    /\ pt_returns[2].v # pt_returns[1].v.planned_state
    /\ pt_returns[3].v # pt_returns[2].v
    /\ pt_returns[5].v # pt_returns[3].v
    /\ pt_returns[6].v # pt_returns[5].v
    /\ pt_result.v.v = pt_returns[6].v
\* the update failed: nothing was called after it and its error came back
C23_WitnessFailure ==
    /\ CrudRun /\ pt_pc = "done" /\ Len(pt_calls) = 5
    /\ pt_calls[5].method = "update"
    /\ pt_result.v = Err(ProviderError("NotFound", "gone"))
====
